---- MODULE Spec2Model ----
(***************************************************************************)
(* Model of the migration task engine: the plan store (plan_manager.py),   *)
(* the sandboxed tool facade and the task executor (coding_agent.py,       *)
(* tools.py).  Text is modelled as sequences of one-character strings so   *)
(* that the regular expressions of the parser and the f-strings of the     *)
(* serializer are computed character by character.                        *)
(***************************************************************************)
EXTENDS Integers, Sequences, FiniteSets, TLC

(* ------------------------------------------------------------------ *)
(* Optional values (Python None / a value)                             *)
(* ------------------------------------------------------------------ *)
None == << >>
Some(v) == << v >>
IsSome(o) == Len(o) = 1
Get(o) == o[1]

(* ------------------------------------------------------------------ *)
(* Character classes of Python's re module                             *)
(* ------------------------------------------------------------------ *)
NL == "\n"
WS == {" ", "\t"}
Digit == {"0","1","2","3","4","5","6","7","8","9"}
Letter == {"a","b","c","d","e","f","g","h","i","j","k","l","m","n","o","p","q","r","s","t","u","v","w","x","y","z",
           "A","B","C","D","E","F","G","H","I","J","K","L","M","N","O","P","Q","R","S","T","U","V","W","X","Y","Z"}
IdChar == Letter \cup Digit \cup {"_", "-"}

RECURSIVE SkipWhile(_, _, _)
(* first position >= i of L whose character is not in S (Len(L)+1 if none) *)
SkipWhile(L, i, S) ==
    IF i <= Len(L) /\ L[i] \in S THEN SkipWhile(L, i + 1, S) ELSE i

CharAt(L, i) == IF i >= 1 /\ i <= Len(L) THEN L[i] ELSE ""

StartsAt(L, i, w) ==
    /\ i >= 1
    /\ i + Len(w) - 1 <= Len(L)
    /\ SubSeq(L, i, i + Len(w) - 1) = w

(* positions >= i at which w occurs in L *)
Occurrences(L, i, w) == { j \in i..Len(L) : StartsAt(L, j, w) }

Min(S) == CHOOSE x \in S : \A y \in S : x <= y
Max(S) == CHOOSE x \in S : \A y \in S : x >= y

RECURSIVE RStripEnd(_, _)
RStripEnd(L, j) == IF j >= 1 /\ L[j] \in WS \cup {NL} THEN RStripEnd(L, j - 1) ELSE j

(* str.strip() *)
Strip(L) ==
    LET a == SkipWhile(L, 1, WS \cup {NL})
        b == RStripEnd(L, Len(L))
    IN  IF a > b THEN << >> ELSE SubSeq(L, a, b)

RECURSIVE SplitOn(_, _)
(* str.split(sep) for a one-character separator *)
SplitOn(L, sep) ==
    LET hits == { j \in 1..Len(L) : L[j] = sep }
    IN  IF hits = {} THEN << L >>
        ELSE LET j == Min(hits)
             IN  << SubSeq(L, 1, j - 1) >> \o SplitOn(SubSeq(L, j + 1, Len(L)), sep)

(* str.splitlines(): like split on the newline, without a trailing empty line *)
SplitLines(L) ==
    IF L = << >> THEN << >>
    ELSE LET parts == SplitOn(L, NL)
         IN  IF parts[Len(parts)] = << >> THEN SubSeq(parts, 1, Len(parts) - 1) ELSE parts

RECURSIVE Join(_, _)
(* sep.join(parts) *)
Join(parts, sep) ==
    IF parts = << >> THEN << >>
    ELSE IF Len(parts) = 1 THEN parts[1]
    ELSE parts[1] \o sep \o Join(Tail(parts), sep)

(* ------------------------------------------------------------------ *)
(* Task line syntax: task_line_regexes                                 *)
(* ------------------------------------------------------------------ *)
NoMatch == [matched |-> FALSE, status_char |-> "", id |-> << >>, meta |-> None]

\* the optional trailing metadata group, an HTML comment, tried at position i:
\* it runs from "<!--" to the last "-->" of the line
MetaGroup(L, i) ==
    LET closes == Occurrences(L, i + 4, <<"-","-",">">>)
    IN  IF StartsAt(L, i, <<"<","!","-","-">>) /\ closes # {}
        THEN Some(SubSeq(L, i, Max(closes) + 2))
        ELSE None

\* the common prefix of the nine patterns (dash, checkbox holding x or a blank):
\* the position after it and the blanks that follow, 0 when it does not match
HeaderPrefix(L) ==
    LET a == SkipWhile(L, 1, WS)
        b == SkipWhile(L, a + 1, WS)
    IN  IF /\ CharAt(L, a) = "-"
           /\ CharAt(L, b) = "["
           /\ CharAt(L, b + 1) \in {"x"} \cup WS
           /\ CharAt(L, b + 2) = "]"
        THEN SkipWhile(L, b + 3, WS)
        ELSE 0

StatusChar(L) == L[SkipWhile(L, SkipWhile(L, 1, WS) + 1, WS) + 1]

\* end (exclusive) of the id token T[0-9]+ at p, 0 when there is none
TIdEnd(L, p) ==
    LET e == SkipWhile(L, p + 1, Digit)
    IN  IF CharAt(L, p) = "T" /\ e > p + 1 THEN e ELSE 0

\* end (exclusive) of the longest id token [a-zA-Z0-9_-]+ at p, 0 when none
AnyIdEnd(L, p) ==
    LET e == SkipWhile(L, p, IdChar)
    IN  IF e > p THEN e ELSE 0

Matched(L, p, e, metaAt) ==
    [matched |-> TRUE, status_char |-> StatusChar(L),
     id |-> SubSeq(L, p, e - 1), meta |-> MetaGroup(L, metaAt)]

\* patterns 1 and 2: the id in bold followed by a colon, text up to the first
\* closing pair of stars, blanks, metadata; e is the end of the id found at p+2
BoldForm(L, p, e) ==
    LET stars == Occurrences(L, e + 1, <<"*","*">>)
    IN  IF StartsAt(L, p, <<"*","*">>) /\ e # 0 /\ CharAt(L, e) = ":" /\ stars # {}
        THEN Matched(L, p + 2, e, SkipWhile(L, Min(stars) + 2, WS))
        ELSE NoMatch

\* patterns 3 and 4: the id followed by a colon; the lazy wildcard takes nothing,
\* so the metadata is found only right after the colon and blanks
ColonForm(L, p, e) ==
    IF e # 0 /\ CharAt(L, e) = ":"
    THEN Matched(L, p, e, SkipWhile(L, e + 1, WS))
    ELSE NoMatch

\* pattern 5: a T-number id, blanks, a dash
TDashForm(L, p) ==
    LET e == TIdEnd(L, p)
        f == SkipWhile(L, e, WS)
    IN  IF e # 0 /\ CharAt(L, f) = "-"
        THEN Matched(L, p, e, SkipWhile(L, f + 1, WS))
        ELSE NoMatch

\* pattern 6: an id, blanks, a dash; the greedy id token gives characters back
\* until a dash follows it
AnyDashForm(L, p) ==
    LET e == AnyIdEnd(L, p)
        f == SkipWhile(L, e, WS)
        inner == { k \in (p + 1)..(e - 1) : L[k] = "-" }
    IN  IF e = 0 THEN NoMatch
        ELSE IF CharAt(L, f) = "-"
        THEN Matched(L, p, e, SkipWhile(L, f + 1, WS))
        ELSE IF inner # {}
        THEN Matched(L, p, Max(inner), SkipWhile(L, Max(inner) + 1, WS))
        ELSE NoMatch

\* patterns 7 and 8: the id followed by at least one blank
SpaceForm(L, p, e) ==
    IF e # 0 /\ CharAt(L, e) \in WS
    THEN Matched(L, p, e, SkipWhile(L, e, WS))
    ELSE NoMatch

\* pattern 9: the bare id
BareForm(L, p) ==
    LET e == AnyIdEnd(L, p)
    IN  IF e # 0 THEN Matched(L, p, e, SkipWhile(L, e, WS)) ELSE NoMatch

(* the nine patterns, in the order of the list *)
TaskLineForms(L, p) ==
    << BoldForm(L, p, TIdEnd(L, p + 2)),
       BoldForm(L, p, AnyIdEnd(L, p + 2)),
       ColonForm(L, p, TIdEnd(L, p)),
       ColonForm(L, p, AnyIdEnd(L, p)),
       TDashForm(L, p),
       AnyDashForm(L, p),
       SpaceForm(L, p, TIdEnd(L, p)),
       SpaceForm(L, p, AnyIdEnd(L, p)),
       BareForm(L, p) >>

(* for r in task_line_regexes: m = r.match(line); first match wins *)
MatchTaskLine(L) ==
    LET p == HeaderPrefix(L)
        forms == TaskLineForms(L, p)
        hits == { k \in 1..Len(forms) : forms[k].matched }
    IN  IF p = 0 \/ hits = {} THEN NoMatch ELSE forms[Min(hits)]

\* re.search for "notes:" up to the first semicolon in the metadata comment,
\* then group(1).strip()
NotesOf(meta) ==
    LET starts == Occurrences(meta, 1, <<"n","o","t","e","s",":">>)
        s == SkipWhile(meta, Min(starts) + 6, WS)
        semis == { j \in s..Len(meta) : meta[j] = ";" }
    IN  IF starts = {} THEN None
        ELSE IF semis = {} THEN None
        ELSE Some(Strip(SubSeq(meta, s, Min(semis) - 1)))

\* desc_re: the text after "- description:"
MatchDesc(L) ==
    LET a == SkipWhile(L, 1, WS)
        b == SkipWhile(L, a + 1, WS)
    IN  IF CharAt(L, a) = "-" /\ StartsAt(L, b, <<"d","e","s","c","r","i","p","t","i","o","n",":">>)
        THEN Some(SubSeq(L, SkipWhile(L, b + 12, WS), Len(L)))
        ELSE None

\* depends_re: the text between "[" and the last "]" after "- depends:"
MatchDepends(L) ==
    LET a == SkipWhile(L, 1, WS)
        b == SkipWhile(L, a + 1, WS)
        c == SkipWhile(L, b + 8, WS)
        closes == { j \in (c + 1)..Len(L) : L[j] = "]" }
    IN  IF /\ CharAt(L, a) = "-" /\ StartsAt(L, b, <<"d","e","p","e","n","d","s",":">>)
           /\ CharAt(L, c) = "[" /\ closes # {}
        THEN Some(SubSeq(L, c + 1, Max(closes) - 1))
        ELSE None

RECURSIVE StripAll(_)
StripAll(parts) ==
    IF parts = << >> THEN << >>
    ELSE LET h == Strip(Head(parts))
         IN  (IF h = << >> THEN << >> ELSE << h >>) \o StripAll(Tail(parts))

(* [d.strip() for d in deps_str.split(',') if d.strip()] *)
DepList(deps_str) == StripAll(SplitOn(deps_str, ","))

(* ------------------------------------------------------------------ *)
(* Task records (domain/task.py) and the parser                        *)
(* ------------------------------------------------------------------ *)
NoDescription == <<"N","o"," ","d","e","s","c","r","i","p","t","i","o","n"," ","p","r","o","v","i","d","e","d",".">>

(* Task(...) followed by __post_init__ *)
Task(id, description, status, depends_on, notes, raw_lines) ==
    [id |-> id,
     description |-> IF description # << >> THEN Strip(description) ELSE description,
     status |-> status,
     depends_on |-> depends_on,
     notes |-> notes,
     raw_lines |-> raw_lines]

(* current_task_data: empty after clear(), otherwise the open task *)
NoCurrent == << >>

(* the header branch of the loop: a fresh current_task_data *)
OpenTask(line, m) ==
    << [id |-> m.id,
        status |-> IF m.status_char = "x" THEN "done" ELSE "todo",
        raw_lines |-> << line >>,
        depends_on |-> << >>,
        description |-> None,
        notes |-> IF IsSome(m.meta) THEN NotesOf(Get(m.meta)) ELSE None] >>

(* the body branch of the loop, for a line that follows a header *)
BodyLine(cur, line) ==
    LET c == [cur EXCEPT !.raw_lines = Append(@, line)]
        d == MatchDesc(line)
        p == MatchDepends(line)
    IN  IF IsSome(d) THEN [c EXCEPT !.description = Some(Strip(Get(d)))]
        ELSE IF IsSome(p) /\ Strip(Get(p)) # << >>
             THEN [c EXCEPT !.depends_on = DepList(Strip(Get(p)))]
        ELSE c

(* process_previous_task: the tasks list with the open task appended *)
process_previous_task(acc, cur) ==
    IF cur # NoCurrent /\ cur[1].id # << >>
    THEN Append(acc, Task(cur[1].id,
                          IF IsSome(cur[1].description) THEN Get(cur[1].description)
                                                        ELSE NoDescription,
                          cur[1].status, cur[1].depends_on, cur[1].notes,
                          cur[1].raw_lines))
    ELSE acc

RECURSIVE ParseLines(_, _, _, _)
ParseLines(lines, i, cur, acc) ==
    IF i > Len(lines) THEN process_previous_task(acc, cur)
    ELSE LET m == MatchTaskLine(lines[i])
         IN  IF m.matched
             THEN ParseLines(lines, i + 1, OpenTask(lines[i], m),
                             process_previous_task(acc, cur))
             ELSE IF cur # NoCurrent
             THEN ParseLines(lines, i + 1, << BodyLine(cur[1], lines[i]) >>, acc)
             ELSE ParseLines(lines, i + 1, cur, acc)

Ids(T) == { T[i].id : i \in 1..Len(T) }

(* self.task_map[task.id] = task, in list order: the last task of an id wins. *)
(* The dict holds references into the list, modelled as list positions.       *)
BuildMap(T) ==
    [ id \in Ids(T) |-> Max({ i \in 1..Len(T) : T[i].id = id }) ]

(* _parse_plan_markdown *)
parse_plan_markdown(content) ==
    ParseLines(SplitLines(content), 1, NoCurrent, << >>)

(* ------------------------------------------------------------------ *)
(* The serializer                                                      *)
(* ------------------------------------------------------------------ *)
Truthy(o) == IsSome(o) /\ Get(o) # << >>

(* the three or four lines emitted for one task *)
TaskLines(t, stamp) ==
    LET status_char == IF t.status = "done" THEN <<"x">> ELSE <<" ">>
        metadata_parts ==
            IF t.status = "done"
            THEN << <<"s","t","a","t","u","s",":"," ","d","o","n","e">> >>
                 \o (IF Truthy(t.notes) THEN << <<"n","o","t","e","s",":"," ">> \o Get(t.notes) >> ELSE << >>)
                 \o << <<"u","p","d","a","t","e","d",":"," ">> \o stamp >>
            ELSE << >>
        metadata_comment ==
            IF metadata_parts # << >>
            THEN <<" ","<","!","-","-"," ">> \o Join(metadata_parts, <<";"," ">>) \o <<";"," ","-","-",">">>
            ELSE << >>
    IN  << <<"-"," ","[">> \o status_char \o <<"]"," ">> \o t.id \o metadata_comment,
           <<" "," ","-"," ","d","e","s","c","r","i","p","t","i","o","n",":"," ">> \o t.description >>
        \o (IF t.depends_on # << >>
            THEN << <<" "," ","-"," ","d","e","p","e","n","d","s",":"," ","[">> \o Join(t.depends_on, <<","," ">>) \o <<"]">> >>
            ELSE << >>)
        \o << << >> >>

RECURSIVE AllTaskLines(_, _)
AllTaskLines(T, stamp) ==
    IF T = << >> THEN << >>
    ELSE TaskLines(Head(T), stamp) \o AllTaskLines(Tail(T), stamp)

(* _serialize_plan_markdown; stamp is datetime.now(timezone.utc).isoformat() *)
serialize_plan_markdown(T, stamp) ==
    Join(<< <<"#"," ","M","i","g","r","a","t","i","o","n"," ","P","l","a","n","\n">> >> \o AllTaskLines(T, stamp), << NL >>)

(* ------------------------------------------------------------------ *)
(* Task selection and completion                                       *)
(* ------------------------------------------------------------------ *)
RECURSIVE dependencies_met_skip_missing(_, _, _, _)
(* variant: a dependency id that names no task is skipped instead of unmet *)
dependencies_met_skip_missing(T, M, deps, k) ==
    IF k > Len(deps) THEN TRUE
    ELSE IF deps[k] \notin DOMAIN M THEN dependencies_met_skip_missing(T, M, deps, k + 1)
    ELSE IF T[M[deps[k]]].status # "done" THEN FALSE
    ELSE dependencies_met_skip_missing(T, M, deps, k + 1)

RECURSIVE dependencies_met(_, _, _, _)
(* the inner loop of get_next_task over task.depends_on, from position k *)
dependencies_met(T, M, deps, k) ==
    IF k > Len(deps) THEN TRUE
    ELSE IF deps[k] \notin DOMAIN M THEN FALSE
    ELSE IF T[M[deps[k]]].status # "done" THEN FALSE
    ELSE dependencies_met(T, M, deps, k + 1)

RECURSIVE scan_tasks(_, _, _)
(* the outer loop of get_next_task, from position i *)
scan_tasks(T, M, i) ==
    IF i > Len(T) THEN None
    ELSE IF T[i].status = "todo" /\ dependencies_met(T, M, T[i].depends_on, 1)
    THEN Some(i)
    ELSE scan_tasks(T, M, i + 1)

RECURSIVE first_todo(_, _)
first_todo(T, i) ==
    IF i > Len(T) THEN None
    ELSE IF T[i].status = "todo" THEN Some(i)
    ELSE first_todo(T, i + 1)

RECURSIVE first_unblocked(_, _, _)
first_unblocked(T, M, i) ==
    IF i > Len(T) THEN None
    ELSE IF dependencies_met(T, M, T[i].depends_on, 1) THEN Some(i)
    ELSE first_unblocked(T, M, i + 1)

(* variant: the first task whose dependencies are met, whatever its status *)
get_next_task_any_status(T, M) == first_unblocked(T, M, 1)

(* variant: the first 'todo' task, whatever its dependencies *)
get_next_task_any_todo(T, M) == first_todo(T, 1)

(* get_next_task: the position of the returned task in the list, None for None *)
get_next_task(T, M) == scan_tasks(T, M, 1)

(* variant: the notes of a second completion are appended to the first's *)
update_task_status_append_notes(T, M, task_id, new_status, notes, stamp) ==
    IF task_id \notin DOMAIN M THEN [tasks |-> T, markdown |-> None]
    ELSE IF new_status # "done" THEN [tasks |-> T, markdown |-> None]
    ELSE LET T2 == [T EXCEPT ![M[task_id]].status = "done",
                             ![M[task_id]].notes =
                                 IF ~Truthy(notes) THEN @
                                 ELSE IF Truthy(@) THEN Some(Get(@) \o << NL >> \o Get(notes))
                                 ELSE notes]
         IN  [tasks |-> T2, markdown |-> Some(serialize_plan_markdown(T2, stamp))]

(* variant: the file is rewritten before the status argument is looked at *)
update_task_status_rewrites_always(T, M, task_id, new_status, notes, stamp) ==
    IF task_id \notin DOMAIN M THEN [tasks |-> T, markdown |-> None]
    ELSE IF new_status # "done"
    THEN [tasks |-> T, markdown |-> Some(serialize_plan_markdown(T, stamp))]
    ELSE LET T2 == [T EXCEPT ![M[task_id]].status = "done",
                             ![M[task_id]].notes = IF Truthy(notes) THEN notes ELSE @]
         IN  [tasks |-> T2, markdown |-> Some(serialize_plan_markdown(T2, stamp))]

(* variant: the requested status is stored whatever it is *)
update_task_status_any_status(T, M, task_id, new_status, notes, stamp) ==
    IF task_id \notin DOMAIN M THEN [tasks |-> T, markdown |-> None]
    ELSE LET T2 == [T EXCEPT ![M[task_id]].status = new_status,
                             ![M[task_id]].notes = IF Truthy(notes) THEN notes ELSE @]
         IN  [tasks |-> T2, markdown |-> Some(serialize_plan_markdown(T2, stamp))]

(* variant: the notes argument is stored whatever it is *)
update_task_status_stores_notes(T, M, task_id, new_status, notes, stamp) ==
    IF task_id \notin DOMAIN M THEN [tasks |-> T, markdown |-> None]
    ELSE IF new_status # "done" THEN [tasks |-> T, markdown |-> None]
    ELSE LET T2 == [T EXCEPT ![M[task_id]].status = "done",
                             ![M[task_id]].notes = notes]
         IN  [tasks |-> T2, markdown |-> Some(serialize_plan_markdown(T2, stamp))]

(* update_task_status up to the write: the task list after the call and the  *)
(* markdown handed to the file write (None when the call returns early)      *)
update_task_status(T, M, task_id, new_status, notes, stamp) ==
    IF task_id \notin DOMAIN M THEN [tasks |-> T, markdown |-> None]
    ELSE IF new_status # "done" THEN [tasks |-> T, markdown |-> None]
    ELSE LET T2 == [T EXCEPT ![M[task_id]].status = "done",
                             ![M[task_id]].notes = IF Truthy(notes) THEN notes ELSE @]
         IN  [tasks |-> T2, markdown |-> Some(serialize_plan_markdown(T2, stamp))]

(* ================================================================== *)
(* State                                                               *)
(* ================================================================== *)
(* the plan store: a PlanManager and its file *)
VARIABLES
    file,       \* the plan file: None when it does not exist, else its text
    tasks,      \* PlanManager.tasks
    task_map,   \* PlanManager.task_map: id -> position in tasks
    running,    \* whether the process holding the PlanManager is alive
    last,       \* the latest call: operation, arguments, result
    access      \* what the file system lets the process do with the plan file


plan_vars == << file, tasks, task_map, running, last, access >>

(* the task executor: one CodingAgent running execute_task *)
VARIABLES
    pc,               \* where execute_task is: "idle", "dispatch", "validate", "fix", "done"
    chat,             \* base_agent.chat: the session in use, 0 before the first
    attempt,          \* the loop variable of the dispatch loop
    fix_iteration,    \* fix_iteration
    notes_log,        \* notes, as the sequence of the pieces appended
    result,           \* what execute_task returned: None while it runs
    dispatch_calls,   \* send_message calls made by the dispatch loop
    server_errors,    \* InternalServerError raised by them
    slept,            \* seconds spent in time.sleep
    validations,      \* _run_lint_and_typecheck calls
    fix_calls,        \* send_message calls made by the fix loop
    history,          \* the exchanges held by base_agent.chat
    used,             \* the sessions the send_message calls of this execute_task went to
    old               \* the sessions the send_message calls of earlier execute_task calls went to


session_vars == << history, used, old >>
exec_vars == << pc, chat, attempt, fix_iteration, notes_log, result,
                dispatch_calls, server_errors, slept, validations, fix_calls,
                history, used, old >>

(* the sandbox: the disk under the tools and the latest tool call *)
VARIABLES
    links,      \* symbolic links on disk: place -> target path
    files,      \* regular files on disk: place -> content
    call        \* the latest tool call: operation, arguments, what it returned

sandbox_vars == << links, files, call >>

(* the orchestrator: the top-level loop over the plan *)
VARIABLES
    orch_pc,    \* where the loop is: "select", "run", "stopped"
    current,    \* the task handed to the executor: None, or its position in tasks
    dispatched, \* the positions of the tasks handed to the executor so far, in order
    outcomes,   \* what the executor returned for each of them: TRUE for success
    writes      \* how many times the plan file has been rewritten

orch_vars == << orch_pc, current, dispatched, outcomes, writes >>

(* the validation gate on its own: two command runs and the verdict on them *)
VARIABLES
    gate        \* the runs of the two commands and what _run_lint_and_typecheck returned

gate_vars == << gate >>

(* the upload of a file for the model: one call of upload_pdf_for_gemini *)
VARIABLES
    upload      \* where the call is, the file's last state, the time spent, what it returned

upload_vars == << upload >>

vars == << plan_vars, exec_vars, sandbox_vars, orch_vars, gate_vars, upload_vars >>

(* ------------------------------------------------------------------ *)
(* Inputs of the plan store                                            *)
(* ------------------------------------------------------------------ *)
(* the two-task plan of the dependency example *)
DocTwoTasks ==
    Join(<< <<"#"," ","M","i","g","r","a","t","i","o","n"," ","P","l","a","n">>,
            <<>>,
            <<"-"," ","["," ","]"," ","T","0","1"," ","<","!","-","-"," ","s","t","a","t","u","s",":"," ","t","o","d","o",";"," ","-","-",">">>,
            <<" "," ","-"," ","d","e","s","c","r","i","p","t","i","o","n",":"," ","I","n","i","t","i","a","l","i","z","e"," ","R","e","a","c","t"," ","w","o","r","k","s","p","a","c","e">>,
            <<"-"," ","["," ","]"," ","T","0","2">>,
            <<" "," ","-"," ","d","e","s","c","r","i","p","t","i","o","n",":"," ","C","o","p","y"," ","s","t","a","t","i","c"," ","a","s","s","e","t","s">>,
            <<" "," ","-"," ","d","e","p","e","n","d","s",":"," ","[","T","0","1","]">> >>, << NL >>)

(* other header syntaxes: a task that depends on a later task, a dependency *)
(* on an id no task has, a body line before the first header               *)
DocForms ==
    Join(<< <<" "," ","-"," ","d","e","s","c","r","i","p","t","i","o","n",":"," ","b","e","f","o","r","e"," ","a","n","y"," ","t","a","s","k">>,
            <<"-"," ","["," ","]"," ","*","*","T","1",":"," ","S","e","t","u","p","*","*">>,
            <<" "," ","-"," ","d","e","s","c","r","i","p","t","i","o","n",":"," ","S","e","t"," ","u","p">>,
            <<" "," ","-"," ","d","e","p","e","n","d","s",":"," ","[","t","a","s","k","-","a","]">>,
            <<"-"," ","["," ","]"," ","t","a","s","k","-","a",":"," ","c","o","n","v","e","r","t">>,
            <<"-"," ","["," ","]"," ","T","3"," ","-"," ","w","i","r","e"," ","u","p">>,
            <<" "," ","-"," ","d","e","p","e","n","d","s",":"," ","[","T","1",","," ","g","h","o","s","t","]">> >>, << NL >>)

InitialDocs == { DocTwoTasks, DocForms }

(* notes passed to update_task_status: none, and the notes execute_task *)
(* returns on success                                                   *)
NoteExecuteTask ==
    <<"I","n","i","t","i","a","l"," ","L","L","M"," ","r","e","s","p","o","n","s","e",":","\n","D","o","n","e",".","\n","\n","L","i","n","t"," ","a","n","d"," ","t","y","p","e","c","h","e","c","k"," ","p","a","s","s","e","d"," ","a","f","t","e","r"," ","0"," ","f","i","x"," ","i","t","e","r","a","t","i","o","n","s",".">>
NoteInputs == { None, Some(NoteExecuteTask) }

(* statuses asked of update_task_status: the code tells 'done' from any other *)
StatusInputs == { "done", "todo", "failed" }
UnknownId == <<"T","9","9">>

(* values of datetime.now(timezone.utc).isoformat(timespec='seconds') *)
Stamps == { <<"2","0","2","5","-","0","5","-","0","8","T","1","8",":","0","0",":","0","1","+","0","0",":","0","0">>, <<"2","0","2","5","-","0","5","-","0","8","T","1","8",":","0","0",":","0","2","+","0","0",":","0","0">> }

(* ------------------------------------------------------------------ *)
(* State                                                               *)
(* ------------------------------------------------------------------ *)

Call(op, task_id, new_status, notes, ret, old_file, new_file) ==
    [op |-> op, task_id |-> task_id, new_status |-> new_status, notes |-> notes,
     ret |-> ret, old_file |-> old_file, new_file |-> new_file, again |-> FALSE]

(* whether a call repeats the call before it, argument for argument *)
Repeats(c) ==
    /\ last.op = c.op
    /\ last.task_id = c.task_id
    /\ last.new_status = c.new_status
    /\ last.notes = c.notes

(* Task.raw_lines is assigned by the parser and read by nothing: the plan *)
(* state keeps the fields the operations read                            *)
Field(t) ==
    [id |-> t.id, description |-> t.description, status |-> t.status,
     depends_on |-> t.depends_on, notes |-> t.notes]
Fields(T) == [ i \in 1..Len(T) |-> Field(T[i]) ]

(* _load_and_parse_plan: the task list for the file as it is, readable or not *)
load_and_parse_plan(f, readable) ==
    IF ~IsSome(f) THEN << >>
    ELSE IF ~readable THEN << >>
    ELSE Fields(parse_plan_markdown(Get(f)))

(* what the file system lets the process do with the plan file: everything; *)
(* stat but not open or decode (open raises inside the try block); not even *)
(* stat (a directory that cannot be searched, a name that is too long)      *)
Accesses == { "ok", "unreadable", "unreachable" }

(* a document without any task header line *)
DocNoHeader ==
    Join(<< <<"#"," ","M","i","g","r","a","t","i","o","n"," ","P","l","a","n">>,
            <<>>,
            <<"n","o","t","h","i","n","g"," ","t","o"," ","d","o"," ","y","e","t">>,
            <<" "," ","-"," ","d","e","s","c","r","i","p","t","i","o","n",":"," ","n","o"," ","t","a","s","k"," ","a","b","o","v","e">> >>, << NL >>)

(* tasks without a description line, with a description line that holds *)
(* nothing, and with one that holds blanks                               *)
DocDescriptions ==
    Join(<< <<"-"," ","["," ","]"," ","T","0","1">>,
            <<"-"," ","["," ","]"," ","T","0","2">>,
            <<" "," ","-"," ","d","e","s","c","r","i","p","t","i","o","n",":">>,
            <<"-"," ","[","x","]"," ","T","0","3">>,
            <<" "," ","-"," ","d","e","s","c","r","i","p","t","i","o","n",":"," "," "," ">>,
            <<" "," ","-"," ","d","e","p","e","n","d","s",":"," ","[","T","0","1","]">> >>, << NL >>)

(* two tasks written with the same id *)
DocDuplicateIds ==
    Join(<< <<"-"," ","["," ","]"," ","T","0","1">>,
            <<" "," ","-"," ","d","e","s","c","r","i","p","t","i","o","n",":"," ","f","i","r","s","t">>,
            <<"-"," ","["," ","]"," ","T","0","2">>,
            <<"-"," ","["," ","]"," ","T","0","1">>,
            <<" "," ","-"," ","d","e","s","c","r","i","p","t","i","o","n",":"," ","s","e","c","o","n","d">> >>, << NL >>)

(* the ids of the parser's docstring and of the module's sample plan, written *)
(* bare, with and without a metadata comment                                 *)
DocHyphenIds ==
    Join(<< <<"-"," ","[","x","]"," ","T","0","0","-","S","E","T","U","P"," ","<","!","-","-"," ","s","t","a","t","u","s",":"," ","d","o","n","e",";"," ","-","-",">">>,
            <<"-"," ","["," ","]"," ","t","a","s","k","-","i","d","-","0","0","1">>,
            <<" "," ","-"," ","d","e","p","e","n","d","s",":"," ","[","T","0","0","-","S","E","T","U","P","]">> >>, << NL >>)

(* body lines before the first header, and body lines given twice for one task *)
DocRepeatedBody ==
    Join(<< <<" "," ","-"," ","d","e","p","e","n","d","s",":"," ","[","T","9","]">>,
            <<"-"," ","["," ","]"," ","T","0","1">>,
            <<" "," ","-"," ","d","e","s","c","r","i","p","t","i","o","n",":"," ","a">>,
            <<" "," ","-"," ","d","e","p","e","n","d","s",":"," ","[","T","0","2","]">>,
            <<" "," ","-"," ","d","e","s","c","r","i","p","t","i","o","n",":"," ","b">>,
            <<" "," ","-"," ","d","e","p","e","n","d","s",":"," ","[","]">>,
            <<"-"," ","["," ","]"," ","T","0","2">>,
            <<" "," ","-"," ","d","e","p","e","n","d","s",":"," ","[","T","0","1","]">>,
            <<" "," ","-"," ","d","e","p","e","n","d","s",":"," ","[","T","0","3","]">> >>, << NL >>)

(* plan_file_path.exists(): False for a missing file; an OSError of stat *)
(* other than 'not found' is raised on                                   *)
exists(f, acc) ==
    IF acc = "unreachable" THEN [raised |-> TRUE, value |-> FALSE]
    ELSE [raised |-> FALSE, value |-> IsSome(f)]

(* PlanManager(plan_file_path): __init__ and _load_and_parse_plan; the *)
(* exists() test stands before the try block                           *)
load_plan(f, acc) ==
    LET e == exists(f, acc)
    IN  IF e.raised THEN [raised |-> TRUE, tasks |-> << >>]
        ELSE IF ~e.value THEN [raised |-> FALSE, tasks |-> << >>]
        ELSE [raised |-> FALSE, tasks |-> load_and_parse_plan(f, acc = "ok")]

LoadInit ==
    /\ file \in { None } \cup { Some(d) : d \in { DocForms, DocNoHeader, DocDescriptions, DocDuplicateIds,
                                 DocHyphenIds, DocRepeatedBody } }
    /\ access \in Accesses
    /\ tasks = << >>
    /\ task_map = BuildMap(<< >>)
    /\ running = FALSE
    /\ last = Call("init", << >>, "", None, None, None, None)

(* the process constructs its PlanManager *)
LoadPlan ==
    /\ ~running
    /\ last.op = "init"
    /\ \E r \in { load_plan(file, access) } :
          /\ tasks' = r.tasks
          /\ task_map' = BuildMap(r.tasks)
          /\ running' = ~r.raised
          /\ last' = Call("load", << >>, "", None,
                          IF r.raised THEN "raised" ELSE "loaded", None, None)
    /\ UNCHANGED << file, access >>
    /\ UNCHANGED << exec_vars, sandbox_vars, orch_vars, gate_vars, upload_vars >>

PlanInit ==
    /\ file \in { None } \cup { Some(d) : d \in InitialDocs }
    /\ tasks = load_and_parse_plan(file, TRUE)
    /\ task_map = BuildMap(tasks)
    /\ running = TRUE
    /\ last = Call("init", << >>, "", None, None, None, None)
    /\ access = "ok"

(* get_next_task() *)
GetNextTask ==
    /\ running
    /\ last' = Call("get_next_task", << >>, "", None,
                    get_next_task(tasks, task_map), None, None)
    /\ UNCHANGED << file, tasks, task_map, running, access >>
    /\ UNCHANGED << exec_vars, sandbox_vars, orch_vars, gate_vars, upload_vars >>

(* update_task_status(task_id, new_status, notes), the write succeeding *)
UpdateTaskStatus ==
    /\ running
    /\ \E task_id \in Ids(tasks) \cup { UnknownId }, new_status \in StatusInputs,
          notes \in NoteInputs, stamp \in Stamps :
          \E u \in { update_task_status(tasks, task_map, task_id, new_status, notes, stamp) } :
              /\ tasks' = u.tasks
              /\ file' = IF IsSome(u.markdown) THEN u.markdown ELSE file
              /\ last' = LET c == Call("update_task_status", task_id, new_status, notes,
                                        IF IsSome(u.markdown) THEN "written" ELSE "ignored",
                                        None, None)
                         IN  [c EXCEPT !.again = Repeats(c)]
    /\ UNCHANGED << task_map, running, access >>
    /\ UNCHANGED << exec_vars, sandbox_vars, orch_vars, gate_vars, upload_vars >>

(* variant: the entries of task_map are kept over the reload *)
ReloadPlan_keeps_map ==
    /\ running
    /\ \E r \in { load_plan(file, access) } :
          /\ tasks' = IF r.raised THEN tasks ELSE r.tasks
          /\ task_map' = IF r.raised THEN task_map
                         ELSE [ id \in DOMAIN task_map \cup Ids(r.tasks) |->
                                  IF id \in Ids(r.tasks) THEN BuildMap(r.tasks)[id]
                                  ELSE task_map[id] ]
          /\ last' = Call("reload_plan", << >>, "", None,
                          IF r.raised THEN "raised" ELSE "loaded", None, None)
    /\ UNCHANGED << file, running, access >>
    /\ UNCHANGED << exec_vars, sandbox_vars, orch_vars, gate_vars, upload_vars >>

(* reload_plan(): _load_and_parse_plan again; an exception of exists() *)
(* leaves the call with the plan as it was                             *)
ReloadPlan ==
    /\ running
    /\ \E r \in { load_plan(file, access) } :
          /\ tasks' = IF r.raised THEN tasks ELSE r.tasks
          /\ task_map' = IF r.raised THEN task_map ELSE BuildMap(r.tasks)
          /\ last' = Call("reload_plan", << >>, "", None,
                          IF r.raised THEN "raised" ELSE "loaded", None, None)
    /\ UNCHANGED << file, running, access >>
    /\ UNCHANGED << exec_vars, sandbox_vars, orch_vars, gate_vars, upload_vars >>

(* how the write of update_task_status fails: open(..., 'w') raises and the *)
(* file is as it was, or f.write raises after open has truncated the file   *)
WriteFailures == { "open", "write" }

(* update_task_status whose file write raises: the except clause prints *)
UpdateTaskStatusWriteFails ==
    /\ running
    /\ IsSome(file)
    /\ \E task_id \in Ids(tasks), notes \in NoteInputs, stamp \in Stamps,
          failure \in WriteFailures :
          \E u \in { update_task_status(tasks, task_map, task_id, "done", notes, stamp) } :
              /\ tasks' = u.tasks
              /\ file' = IF failure = "open" THEN file ELSE Some(<< >>)
              /\ last' = Call("update_task_status", task_id, "done", notes,
                              "write_failed", file, u.markdown)
    /\ UNCHANGED << task_map, running, access >>
    /\ UNCHANGED << exec_vars, sandbox_vars, orch_vars, gate_vars, upload_vars >>

(* where update_task_status can be stopped around its write: before          *)
(* open(..., 'w'), after it has truncated the file and before the buffered   *)
(* text is flushed, and after the with block has closed the file             *)
InterruptPoints == { "before_open", "after_open", "after_close" }

(* the process is stopped inside update_task_status *)
InterruptUpdate ==
    /\ running
    /\ \E task_id \in Ids(tasks), notes \in NoteInputs, stamp \in Stamps,
          point \in InterruptPoints :
          \E u \in { update_task_status(tasks, task_map, task_id, "done", notes, stamp) } :
              /\ file' = CASE point = "before_open" -> file
                            [] point = "after_open" -> Some(<< >>)
                            [] point = "after_close" -> u.markdown
              /\ last' = Call("interrupted", task_id, "done", notes, point, file, u.markdown)
    /\ running' = FALSE
    /\ UNCHANGED access
    /\ tasks' = << >>
    /\ task_map' = BuildMap(<< >>)
    /\ UNCHANGED << exec_vars, sandbox_vars, orch_vars, gate_vars, upload_vars >>

(* a new run: PlanManager(plan_file_path) *)
Restart ==
    /\ ~running
    /\ running' = TRUE
    /\ tasks' = load_and_parse_plan(file, TRUE)
    /\ task_map' = BuildMap(tasks')
    /\ last' = [last EXCEPT !.op = "restart"]
    /\ UNCHANGED << file, access >>
    /\ UNCHANGED << exec_vars, sandbox_vars, orch_vars, gate_vars, upload_vars >>


(* plans whose dependencies form cycles; every task on a cycle is 'todo': *)
(* a cycle of two with a task that depends on it and free tasks around   *)
(* it, and a task that depends on itself                                 *)
DocCycle ==
    Join(<< <<"-"," ","["," ","]"," ","T","0","1">>,
            <<"-"," ","["," ","]"," ","T","0","2">>,
            <<" "," ","-"," ","d","e","p","e","n","d","s",":"," ","[","T","0","3","]">>,
            <<"-"," ","["," ","]"," ","T","0","3">>,
            <<" "," ","-"," ","d","e","p","e","n","d","s",":"," ","[","T","0","1",","," ","T","0","2","]">>,
            <<"-"," ","["," ","]"," ","T","0","4">>,
            <<" "," ","-"," ","d","e","p","e","n","d","s",":"," ","[","T","0","3","]">>,
            <<"-"," ","["," ","]"," ","T","0","5">> >>, << NL >>)

DocSelfCycle ==
    Join(<< <<"-"," ","["," ","]"," ","T","0","1">>,
            <<" "," ","-"," ","d","e","p","e","n","d","s",":"," ","[","T","0","1","]">>,
            <<"-"," ","["," ","]"," ","T","0","2">>,
            <<" "," ","-"," ","d","e","p","e","n","d","s",":"," ","[","T","0","1","]">>,
            <<"-"," ","["," ","]"," ","T","0","3">>,
            <<"-"," ","[","x","]"," ","T","0","4">>,
            <<"-"," ","["," ","]"," ","T","0","5">>,
            <<" "," ","-"," ","d","e","p","e","n","d","s",":"," ","[","T","0","3",","," ","T","0","4","]">> >>, << NL >>)

DocCycleOfThree ==
    Join(<< <<"-"," ","["," ","]"," ","T","0","1">>,
            <<" "," ","-"," ","d","e","p","e","n","d","s",":"," ","[","T","0","3","]">>,
            <<"-"," ","["," ","]"," ","T","0","2">>,
            <<" "," ","-"," ","d","e","p","e","n","d","s",":"," ","[","T","0","1","]">>,
            <<"-"," ","["," ","]"," ","T","0","3">>,
            <<" "," ","-"," ","d","e","p","e","n","d","s",":"," ","[","T","0","2","]">>,
            <<"-"," ","["," ","]"," ","T","0","4">>,
            <<"-"," ","["," ","]"," ","T","0","5">>,
            <<" "," ","-"," ","d","e","p","e","n","d","s",":"," ","[","T","0","4","]">>,
            <<"-"," ","["," ","]"," ","T","0","6">>,
            <<" "," ","-"," ","d","e","p","e","n","d","s",":"," ","[","T","0","5",","," ","T","0","2","]">> >>, << NL >>)

(* a plan with a title of its own and sections before the tasks *)
DocSections ==
    Join(<< <<"#"," ","S","h","o","p"," ","m","i","g","r","a","t","i","o","n">>,
            <<>>,
            <<"#","#"," ","F","i","l","e"," ","t","r","e","e">>,
            <<"s","r","c","/","a","p","p","/">>,
            <<>>,
            <<"#","#"," ","T","a","s","k","s">>,
            <<"-"," ","["," ","]"," ","T","0","1"," ","<","!","-","-"," ","n","o","t","e","s",":"," ","b","y"," ","h","a","n","d",";"," ","-","-",">">>,
            <<" "," ","-"," ","d","e","s","c","r","i","p","t","i","o","n",":"," ","S","e","t"," ","u","p">>,
            <<"-"," ","["," ","]"," ","T","0","2">>,
            <<" "," ","-"," ","d","e","p","e","n","d","s",":"," ","[","T","0","1","]">> >>, << NL >>)

ReturnedDocs ==
    { DocCycle, DocSelfCycle, DocCycleOfThree, DocDuplicateIds, DocTwoTasks, DocSections }

ReturnedInit ==
    /\ file \in { Some(d) : d \in ReturnedDocs }
    /\ access = "ok"
    /\ tasks = << >>
    /\ task_map = BuildMap(<< >>)
    /\ running = FALSE
    /\ last = Call("init", << >>, "", None, None, None, None)

(* the notes given with a completion: none, the empty string, the notes *)
(* execute_task returns                                                *)
ReturnedNotes == NoteInputs \cup { Some(<< >>) }

(* update_task_status(task.id, 'done', notes) for the task that the call *)
(* of get_next_task before it returned                                  *)
UpdateReturnedTask ==
    /\ running
    /\ last.op = "get_next_task"
    /\ IsSome(last.ret)
    /\ \E notes \in ReturnedNotes, stamp \in Stamps :
          \E u \in { update_task_status(tasks, task_map, tasks[Get(last.ret)].id,
                                        "done", notes, stamp) } :
              /\ tasks' = u.tasks
              /\ file' = IF IsSome(u.markdown) THEN u.markdown ELSE file
              /\ last' = Call("update_task_status", tasks[Get(last.ret)].id, "done", notes,
                              IF IsSome(u.markdown) THEN "written" ELSE "ignored",
                              None, None)
    /\ UNCHANGED << task_map, running, access >>
    /\ UNCHANGED << exec_vars, sandbox_vars, orch_vars, gate_vars, upload_vars >>

(* ================================================================== *)
(* The task executor: CodingAgent.execute_task                         *)
(* ================================================================== *)
(* Texts of the agent and of the validation commands are sequences of  *)
(* words; a phrase occurs in a text when its words occur in a row.     *)
max_retries == 3
retry_delay_seconds == 5

(* largest number of completed fix iterations followed in one task *)
MaxFix == 2

(* largest number of execute_task calls followed *)
MaxTasksRun == 2

Lower(w) ==
    CASE w = "I" -> "i"
      [] w = "Unable" -> "unable"
      [] w = "Stuck" -> "stuck"
      [] OTHER -> w

LowerText(t) == [ k \in 1..Len(t) |-> Lower(t[k]) ]

(* phrase in text, both sequences of words *)
Contains(t, phrase) ==
    \E k \in 1..(Len(t) - Len(phrase) + 1) : SubSeq(t, k, k + Len(phrase) - 1) = phrase

(* the keyword list tested on the first response *)
dispatch_failure_keywords ==
    { << "unable", "to", "complete" >>, << "task", "failed" >>,
      << "could", "not", "perform" >>, << "i", "am", "unable" >>, << "i", "cannot" >> }

(* llm_gave_up_keywords *)
llm_gave_up_keywords ==
    { << "unable", "to", "fix" >>, << "cannot", "resolve" >>, << "cannot", "be", "fixed" >>,
      << "false", "positive", "and", "i", "cannot", "proceed" >>,
      << "i", "am", "unable" >>, << "i", "cannot" >>, << "no", "further", "fix" >>,
      << "stuck" >>, << "not", "possible" >>, << "not", "enough", "information" >> }

(* variant: only the keywords are looked for, not the 'Error:' prefix *)
indicates_failure_keywords_only(response_text) ==
    \E kw \in dispatch_failure_keywords : Contains(LowerText(response_text), kw)

(* the test applied to the first response text *)
indicates_failure(response_text) ==
    \/ (response_text # << >> /\ response_text[1] = "Error:")
    \/ \E kw \in dispatch_failure_keywords : Contains(LowerText(response_text), kw)

(* variant: the keywords are looked for in the text as it is cased *)
gave_up_case_sensitive(fix_response_text) ==
    \E kw \in llm_gave_up_keywords : Contains(fix_response_text, kw)

(* the test applied to a fix response text *)
gave_up(fix_response_text) ==
    \E kw \in llm_gave_up_keywords : Contains(LowerText(fix_response_text), kw)

(* variant: the delay is also applied after the last attempt *)
on_internal_server_error_sleeps_always(this_attempt) ==
    IF this_attempt < max_retries - 1
    THEN [retry |-> TRUE, sleep |-> retry_delay_seconds]
    ELSE [retry |-> FALSE, sleep |-> retry_delay_seconds]

(* the except InternalServerError branch of the dispatch loop *)
on_internal_server_error(this_attempt) ==
    IF this_attempt < max_retries - 1
    THEN [retry |-> TRUE, sleep |-> retry_delay_seconds]
    ELSE [retry |-> FALSE, sleep |-> 0]

(* what subprocess.run hands back to execute_bash_command: the exit code *)
(* and the two captured streams of a command that ran, or an exception    *)
(* when the command could not be run or its output could not be decoded   *)
Marker == "Command exited with code:"
ExitCodes == 0..2
CodeText(code) == CASE code = 0 -> "0" [] code = 1 -> "1" [] code = 2 -> "2" [] OTHER -> "127"
Ran(returncode, stdout, stderr) ==
    [launched |-> TRUE, returncode |-> returncode, stdout |-> stdout, stderr |-> stderr]
NotLaunched ==
    [launched |-> FALSE, returncode |-> -1, stdout |-> << >>, stderr |-> << >>]
Streams ==
    { << "ok" >>,
      << "errors" >>,
      << Marker, "0", "---" >>,
      << Marker, "unknown" >> }
CommandRuns ==
    { Ran(c, o, e) : c \in ExitCodes, o \in Streams, e \in { << >>, << "warning" >> } }
        \cup { NotLaunched }

(* execute_bash_command: the two streams between their rules, then the    *)
(* exit marker and the code when the code is not 0; the text of the error *)
(* when subprocess.run raised                                             *)
execute_bash_command(run) ==
    IF ~run.launched THEN << "Error", "executing", "command" >>
    ELSE << "---", "stdout", "---" >> \o run.stdout \o << "---", "stderr", "---" >> \o run.stderr
            \o ( IF run.returncode # 0
                 THEN << "---", Marker, CodeText(run.returncode), "---" >>
                 ELSE << >> )

(* the runs of the validation commands inside execute_task *)
ValidationRuns ==
    { Ran(0, << "ok" >>, << >>), Ran(1, << "errors" >>, << >>), NotLaunched }
CommandOutputs == { execute_bash_command(run) : run \in ValidationRuns }

NumberOf(w) == CASE w = "0" -> 0 [] w = "1" -> 1 [] w = "2" -> 2 [] w = "127" -> 127 [] OTHER -> -1

(* variant: a marker whose number cannot be read leaves the code at 0 *)
parse_result_keeps_zero(output) ==
    LET marks == { k \in 1..Len(output) : output[k] = Marker }
        from == Min(marks) + 1
        stops == { k \in from..Len(output) : output[k] \in { Marker, "---" } }
        upto == IF stops = {} THEN Len(output) ELSE Min(stops) - 1
        field == SubSeq(output, from, upto)
    IN  IF marks = {} THEN 0
        ELSE IF Len(field) = 1 /\ NumberOf(field[1]) >= 0 THEN NumberOf(field[1])
        ELSE 0

(* parse_result: the exit code read from the captured text *)
parse_result(output) ==
    LET marks == { k \in 1..Len(output) : output[k] = Marker }
        from == Min(marks) + 1
        stops == { k \in from..Len(output) : output[k] \in { Marker, "---" } }
        upto == IF stops = {} THEN Len(output) ELSE Min(stops) - 1
        field == SubSeq(output, from, upto)
    IN  IF marks = {} THEN 0
        ELSE IF Len(field) = 1 /\ NumberOf(field[1]) >= 0 THEN NumberOf(field[1])
        ELSE 1

(* _run_lint_and_typecheck on the two captured outputs *)
run_lint_and_typecheck(lint_result, typecheck_result) ==
    [success |-> parse_result(lint_result) = 0 /\ parse_result(typecheck_result) = 0,
     lint_errors |-> lint_result,
     type_errors |-> typecheck_result]

ResponseTexts ==
    { << "Created", "the", "component" >>,
      << "Error:", "no", "such", "file" >>,
      << "I", "cannot", "find", "the", "module" >> }

FixTexts ==
    { << "Fixed", "the", "import" >>,
      << "I", "cannot", "fix", "this" >> }


Returned(success, outcome) == Some([success |-> success, outcome |-> outcome])

ExecInit ==
    /\ pc = "idle"
    /\ chat = 0
    /\ attempt = 0
    /\ fix_iteration = 0
    /\ notes_log = << >>
    /\ result = None
    /\ dispatch_calls = 0
    /\ server_errors = 0
    /\ slept = 0
    /\ validations = 0
    /\ fix_calls = 0
    /\ history = 0
    /\ used = { }
    /\ old = { }

(* base_agent.chat.send_message: the call goes to the session held by    *)
(* base_agent.chat, which keeps the exchange when the call returns        *)
SendMessage(returns) ==
    /\ used' = used \cup { chat }
    /\ history' = IF returns THEN history + 1 ELSE history
    /\ old' = old

(* variant: the session of the task before is kept when there is one *)
StartTask_keeps_chat ==
    /\ pc = "idle"
    /\ \E created \in BOOLEAN :
          IF created
          THEN /\ chat' = IF chat = 0 THEN 1 ELSE chat
               /\ history' = history
               /\ pc' = "dispatch"
               /\ result' = None
               /\ notes_log' = << >>
          ELSE /\ chat' = chat
               /\ history' = history
               /\ pc' = "done"
               /\ result' = Returned(FALSE, "chat_error")
               /\ notes_log' = << << "error", << "chat" >> >> >>
    /\ attempt' = 0
    /\ fix_iteration' = 0
    /\ dispatch_calls' = 0
    /\ server_errors' = 0
    /\ slept' = 0
    /\ validations' = 0
    /\ fix_calls' = 0
    /\ used' = { }
    /\ old' = old \cup used
    /\ UNCHANGED << plan_vars, sandbox_vars, orch_vars, gate_vars, upload_vars >>

(* variant: a failed creation is passed over and the dispatch loop entered *)
StartTask_dispatches_without_session ==
    /\ pc = "idle"
    /\ \E created \in BOOLEAN :
          /\ chat' = IF created THEN chat + 1 ELSE chat
          /\ history' = IF created THEN 0 ELSE history
          /\ pc' = "dispatch"
          /\ result' = None
          /\ notes_log' = << >>
    /\ attempt' = 0
    /\ fix_iteration' = 0
    /\ dispatch_calls' = 0
    /\ server_errors' = 0
    /\ slept' = 0
    /\ validations' = 0
    /\ fix_calls' = 0
    /\ used' = { }
    /\ old' = old \cup used
    /\ UNCHANGED << plan_vars, sandbox_vars, orch_vars, gate_vars, upload_vars >>

(* execute_task up to the dispatch loop: the chat session is created, or *)
(* its creation raises and the task fails                                *)
StartTask ==
    /\ pc = "idle"
    /\ \E created \in BOOLEAN :
          IF created
          THEN /\ chat' = chat + 1
               /\ history' = 0
               /\ pc' = "dispatch"
               /\ result' = None
               /\ notes_log' = << >>
          ELSE /\ chat' = chat
               /\ history' = history
               /\ pc' = "done"
               /\ result' = Returned(FALSE, "chat_error")
               /\ notes_log' = << << "error", << "chat" >> >> >>
    /\ attempt' = 0
    /\ fix_iteration' = 0
    /\ dispatch_calls' = 0
    /\ server_errors' = 0
    /\ slept' = 0
    /\ validations' = 0
    /\ fix_calls' = 0
    /\ used' = { }
    /\ old' = old \cup used
    /\ UNCHANGED << plan_vars, sandbox_vars, orch_vars, gate_vars, upload_vars >>

(* one iteration of the dispatch loop whose send_message returns *)
DispatchResponse ==
    /\ pc = "dispatch"
    /\ attempt < max_retries
    /\ \E response_text \in ResponseTexts :
          /\ dispatch_calls' = dispatch_calls + 1
          /\ IF indicates_failure(response_text)
             THEN /\ pc' = "done"
                  /\ result' = Returned(FALSE, "llm_reported_failure")
                  /\ notes_log' = << << "failed", response_text >> >>
             ELSE /\ pc' = "validate"
                  /\ result' = None
                  /\ notes_log' = << << "initial", response_text >> >>
    /\ fix_iteration' = 0
    /\ UNCHANGED << chat, attempt, server_errors, slept, validations, fix_calls >>
    /\ SendMessage(TRUE)
    /\ UNCHANGED << plan_vars, sandbox_vars, orch_vars, gate_vars, upload_vars >>

(* one iteration of the dispatch loop whose send_message raises *)
(* InternalServerError                                            *)
DispatchServerError ==
    /\ pc = "dispatch"
    /\ attempt < max_retries
    /\ dispatch_calls' = dispatch_calls + 1
    /\ server_errors' = server_errors + 1
    /\ slept' = slept + on_internal_server_error(attempt).sleep
    /\ IF on_internal_server_error(attempt).retry
       THEN /\ attempt' = attempt + 1
            /\ pc' = "dispatch"
            /\ result' = None
            /\ notes_log' = notes_log
       ELSE /\ attempt' = attempt
            /\ pc' = "done"
            /\ result' = Returned(FALSE, "server_error_after_retries")
            /\ notes_log' = << << "error", << "InternalServerError" >> >> >>
    /\ UNCHANGED << chat, fix_iteration, validations, fix_calls >>
    /\ SendMessage(FALSE)
    /\ UNCHANGED << plan_vars, sandbox_vars, orch_vars, gate_vars, upload_vars >>

(* variant: another exception is retried like the InternalServerError *)
DispatchOtherError_retried ==
    /\ pc = "dispatch"
    /\ attempt < max_retries
    /\ dispatch_calls' = dispatch_calls + 1
    /\ slept' = slept + on_internal_server_error(attempt).sleep
    /\ IF on_internal_server_error(attempt).retry
       THEN /\ attempt' = attempt + 1
            /\ pc' = "dispatch"
            /\ result' = None
            /\ notes_log' = notes_log
       ELSE /\ attempt' = attempt
            /\ pc' = "done"
            /\ result' = Returned(FALSE, "non_retryable")
            /\ notes_log' = << << "error", << "Exception" >> >> >>
    /\ UNCHANGED << chat, fix_iteration, server_errors, validations, fix_calls >>
    /\ SendMessage(FALSE)
    /\ UNCHANGED << plan_vars, sandbox_vars, orch_vars, gate_vars, upload_vars >>

(* one iteration of the dispatch loop whose send_message raises another *)
(* exception                                                            *)
DispatchOtherError ==
    /\ pc = "dispatch"
    /\ attempt < max_retries
    /\ dispatch_calls' = dispatch_calls + 1
    /\ pc' = "done"
    /\ result' = Returned(FALSE, "non_retryable")
    /\ notes_log' = << << "error", << "Exception" >> >> >>
    /\ UNCHANGED << chat, attempt, fix_iteration, server_errors, slept, validations, fix_calls >>
    /\ SendMessage(FALSE)
    /\ UNCHANGED << plan_vars, sandbox_vars, orch_vars, gate_vars, upload_vars >>

(* variant: the loop gives up after one fix iteration *)
Validate_capped ==
    /\ pc = "validate"
    /\ IF fix_iteration >= 1
       THEN /\ pc' = "done"
            /\ result' = Returned(FALSE, "cap")
            /\ notes_log' = Append(notes_log, << "remain", fix_iteration >>)
            /\ validations' = validations
       ELSE /\ \E lint_result \in CommandOutputs, typecheck_result \in CommandOutputs :
                  LET v == run_lint_and_typecheck(lint_result, typecheck_result)
                  IN  IF v.success
                      THEN /\ pc' = "done"
                           /\ result' = Returned(TRUE, "passed")
                           /\ notes_log' = Append(notes_log, << "passed", fix_iteration >>)
                      ELSE /\ pc' = "fix"
                           /\ result' = None
                           /\ notes_log' = notes_log \o
                                 << << "lint", fix_iteration + 1, v.lint_errors >>,
                                    << "type", fix_iteration + 1, v.type_errors >> >>
            /\ validations' = validations + 1
    /\ UNCHANGED << chat, attempt, fix_iteration, dispatch_calls, server_errors, slept, fix_calls >>
    /\ UNCHANGED session_vars
    /\ UNCHANGED << plan_vars, sandbox_vars, orch_vars, gate_vars, upload_vars >>

(* variant: the diagnostics replace the notes instead of being appended *)
Validate_replaces_notes ==
    /\ pc = "validate"
    /\ \E lint_result \in CommandOutputs, typecheck_result \in CommandOutputs :
          LET v == run_lint_and_typecheck(lint_result, typecheck_result)
          IN  IF v.success
              THEN /\ pc' = "done"
                   /\ result' = Returned(TRUE, "passed")
                   /\ notes_log' = Append(notes_log, << "passed", fix_iteration >>)
              ELSE /\ pc' = "fix"
                   /\ result' = None
                   /\ notes_log' = << << "lint", fix_iteration + 1, v.lint_errors >>,
                                      << "type", fix_iteration + 1, v.type_errors >> >>
    /\ validations' = validations + 1
    /\ UNCHANGED << chat, attempt, fix_iteration, dispatch_calls, server_errors, slept, fix_calls >>
    /\ UNCHANGED session_vars
    /\ UNCHANGED << plan_vars, sandbox_vars, orch_vars, gate_vars, upload_vars >>

(* the head of the fix loop: the validation run and what follows it up to *)
(* the fix prompt                                                         *)
Validate ==
    /\ pc = "validate"
    /\ \E lint_result \in CommandOutputs, typecheck_result \in CommandOutputs :
          LET v == run_lint_and_typecheck(lint_result, typecheck_result)
          IN  IF v.success
              THEN /\ pc' = "done"
                   /\ result' = Returned(TRUE, "passed")
                   /\ notes_log' = Append(notes_log, << "passed", fix_iteration >>)
              ELSE /\ pc' = "fix"
                   /\ result' = None
                   /\ notes_log' = notes_log \o << << "lint", fix_iteration + 1, v.lint_errors >>,
                                                   << "type", fix_iteration + 1, v.type_errors >> >>
    /\ validations' = validations + 1
    /\ UNCHANGED << chat, attempt, fix_iteration, dispatch_calls, server_errors, slept, fix_calls >>
    /\ UNCHANGED session_vars
    /\ UNCHANGED << plan_vars, sandbox_vars, orch_vars, gate_vars, upload_vars >>

(* variant: fix_iteration is not advanced after a fix response *)
FixResponse_keeps_count ==
    /\ pc = "fix"
    /\ \E fix_response_text \in FixTexts :
          IF gave_up(fix_response_text)
          THEN /\ pc' = "done"
               /\ result' = Returned(FALSE, "gave_up")
               /\ notes_log' = notes_log \o << << "fix", fix_iteration + 1, fix_response_text >>,
                                               << "cannot_fix" >>,
                                               << "remain", fix_iteration >> >>
          ELSE /\ fix_calls < MaxFix
               /\ pc' = "validate"
               /\ result' = None
               /\ notes_log' = Append(notes_log, << "fix", fix_iteration + 1, fix_response_text >>)
    /\ fix_iteration' = fix_iteration
    /\ fix_calls' = fix_calls + 1
    /\ UNCHANGED << chat, attempt, dispatch_calls, server_errors, slept, validations >>
    /\ SendMessage(TRUE)
    /\ UNCHANGED << plan_vars, sandbox_vars, orch_vars, gate_vars, upload_vars >>

(* the fix send_message returns *)
FixResponse ==
    /\ pc = "fix"
    /\ \E fix_response_text \in FixTexts :
          IF gave_up(fix_response_text)
          THEN /\ pc' = "done"
               /\ result' = Returned(FALSE, "gave_up")
               /\ notes_log' = notes_log \o << << "fix", fix_iteration + 1, fix_response_text >>,
                                               << "cannot_fix" >>,
                                               << "remain", fix_iteration >> >>
               /\ fix_iteration' = fix_iteration
          ELSE /\ fix_iteration < MaxFix
               /\ pc' = "validate"
               /\ result' = None
               /\ notes_log' = Append(notes_log, << "fix", fix_iteration + 1, fix_response_text >>)
               /\ fix_iteration' = fix_iteration + 1
    /\ fix_calls' = fix_calls + 1
    /\ UNCHANGED << chat, attempt, dispatch_calls, server_errors, slept, validations >>
    /\ SendMessage(TRUE)
    /\ UNCHANGED << plan_vars, sandbox_vars, orch_vars, gate_vars, upload_vars >>

(* the exceptions a fix send_message raises *)
FixExceptions == { "InternalServerError", "Exception" }

(* the fix send_message raises: the except clause is the same for every *)
(* exception                                                            *)
FixError ==
    /\ pc = "fix"
    /\ \E e \in FixExceptions :
          notes_log' = notes_log \o << << "fix_exception", fix_iteration + 1, e >>,
                                       << "remain", fix_iteration >> >>
    /\ pc' = "done"
    /\ result' = Returned(FALSE, "fix_exception")
    /\ fix_calls' = fix_calls + 1
    /\ UNCHANGED << chat, attempt, fix_iteration, dispatch_calls, server_errors, slept,
                    validations >>
    /\ SendMessage(FALSE)
    /\ UNCHANGED << plan_vars, sandbox_vars, orch_vars, gate_vars, upload_vars >>

(* the caller goes on to its next execute_task call *)
NextTask ==
    /\ pc = "done"
    /\ chat < MaxTasksRun
    /\ pc' = "idle"
    /\ UNCHANGED << chat, attempt, fix_iteration, notes_log, result, dispatch_calls,
                    server_errors, slept, validations, fix_calls >>
    /\ UNCHANGED session_vars
    /\ UNCHANGED << plan_vars, sandbox_vars, orch_vars, gate_vars, upload_vars >>

ExecNext ==
    \/ StartTask \/ DispatchResponse \/ DispatchServerError \/ DispatchOtherError
    \/ Validate \/ FixResponse \/ FixError \/ NextTask

(***************************************************************************)
(* The validation gate on its own: _run_lint_and_typecheck over the runs   *)
(* of its two commands                                                     *)
(***************************************************************************)
GateInit ==
    \E lint_run \in CommandRuns, typecheck_run \in CommandRuns :
        gate = [lint |-> lint_run, typecheck |-> typecheck_run, returned |-> None]

RunLintAndTypecheck ==
    /\ gate # << >>
    /\ gate.returned = None
    /\ gate' = [gate EXCEPT !.returned =
                   Some(run_lint_and_typecheck(execute_bash_command(gate.lint),
                                               execute_bash_command(gate.typecheck)))]
    /\ UNCHANGED << plan_vars, exec_vars, sandbox_vars, orch_vars, upload_vars >>

(* ================================================================== *)
(* The sandbox: path resolution and the sandboxed file tools           *)
(* ================================================================== *)
(* A path string is the sequence of its pieces between slashes: "a/b"  *)
(* is <<"a","b">>, "/etc" is <<"","etc">>, "output/" is <<"output","">> *)
(* and the empty string is <<"">>. A resolved path is the sequence of  *)
(* its names below the root directory, which is << >>.                 *)

(* longest path string enumerated, in pieces *)
MaxSegs == 3

Segments == { "output", "input", "..", "", "a", "lnk", "toin" }

RECURSIVE PathsOfLength(_)
PathsOfLength(n) ==
    IF n = 1 THEN { << s >> : s \in Segments }
    ELSE { Append(p, s) : p \in PathsOfLength(n - 1), s \in Segments }

EnumeratedPaths == UNION { PathsOfLength(n) : n \in 1..MaxSegs }

(* path strings with more pieces: absolute overrides into and out of the *)
(* zone, a way round through a sibling directory, deeper traversals      *)
PickedPaths ==
    { << "output", "", "proj", "sb", "output", "a" >>,
      << "output", "", "etc", "passwd" >>,
      << "output", "sub", "..", "..", "output2", "x" >>,
      << "output", "..", "..", "plan.md" >>,
      << "output", "sub", "..", "a" >>,
      << "output", "lnk", "passwd" >>,
      << "output", "src", "App.tsx" >>,
      << "input", "back", "a" >>,
      << "", "proj", "sb", "input", "a" >>,
      << "outputs", "a" >> }

PathInputs == EnumeratedPaths \cup PickedPaths

(* os.getcwd(), CodingAgent.sandbox_dir, output_dir, input_dir *)
cwd == << "proj" >>
sandbox_dir == << "proj", "sb" >>
output_dir == Append(sandbox_dir, "output")
input_dir == Append(sandbox_dir, "input")

(* the symbolic links that may be on disk: place -> target path string *)
AllLinks ==
    ( << "proj", "sb", "output", "lnk" >> :> << "", "etc" >> ) @@
    ( << "proj", "sb", "output", "toin" >> :> << "..", "input" >> ) @@
    ( << "proj", "sb", "input", "back" >> :> << "..", "output" >> )

NoLinks == [ l \in {} |-> << >> ]

LinkSets == { [ l \in S |-> AllLinks[l] ] : S \in SUBSET DOMAIN AllLinks }

(* the regular files on disk at the start *)
InitialFiles ==
    ( << "proj", "sb", "input", "a" >> :> "angular" ) @@
    ( << "proj", "plan.md" >> :> "plan" ) @@
    ( << "etc", "passwd" >> :> "system" )

Contents == { "v1", "v2" }

(* PurePath.is_relative_to: other is path or one of its parents *)
is_relative_to(path, other) ==
    /\ Len(other) <= Len(path)
    /\ SubSeq(path, 1, Len(other)) = other

(* str.startswith(zone + "/") *)
startswith(path, zone) == Len(path) >= 2 /\ path[1] = zone

(* whether a path string begins with a slash *)
is_absolute(path) == Len(path) >= 2 /\ path[1] = ""

Parent(p) == IF p = << >> THEN << >> ELSE SubSeq(p, 1, Len(p) - 1)

(* os.path.realpath: the pieces are walked from the directory at, empty  *)
(* pieces and "." are skipped, ".." goes to the parent, and a name that  *)
(* is a symbolic link is replaced by its target                          *)
RECURSIVE realpath(_, _, _)
realpath(L, at, pieces) ==
    IF pieces = << >> THEN at
    ELSE LET s == Head(pieces)
             rest == Tail(pieces)
         IN  IF s \in { "", "." } THEN realpath(L, at, rest)
             ELSE IF s = ".." THEN realpath(L, Parent(at), rest)
             ELSE IF Append(at, s) \in DOMAIN L
                  THEN realpath(L, IF is_absolute(L[Append(at, s)]) THEN << >> ELSE at,
                                L[Append(at, s)] \o rest)
                  ELSE realpath(L, Append(at, s), rest)

(* (base / path).resolve(): an absolute path replaces the base *)
join_resolve(L, base, path) ==
    realpath(L, IF is_absolute(path) THEN << >> ELSE base, path)

PermissionError == [kind |-> "PermissionError", path |-> << >>]
ValueError == [kind |-> "ValueError", path |-> << >>]

Stripped(relative_path, context_dir_type) ==
    IF startswith(relative_path, context_dir_type) THEN Tail(relative_path) ELSE relative_path

ZoneRoot(context_dir_type) ==
    IF context_dir_type = "input" THEN input_dir ELSE output_dir

(* variant: the containment test is made on the joined path before it is *)
(* resolved                                                              *)
resolve_sandbox_path_checks_joined(L, relative_path, context_dir_type) ==
    IF context_dir_type \notin { "input", "output" } THEN ValueError
    ELSE LET base_dir == ZoneRoot(context_dir_type)
             path_to_resolve == Stripped(relative_path, context_dir_type)
             joined == IF is_absolute(path_to_resolve)
                       THEN SelectSeq(path_to_resolve, LAMBDA s : s # "")
                       ELSE base_dir \o SelectSeq(path_to_resolve, LAMBDA s : s # "")
             abs_path == join_resolve(L, base_dir, path_to_resolve)
         IN  IF ~is_relative_to(joined, base_dir) /\ joined # base_dir
             THEN PermissionError
             ELSE [kind |-> "path", path |-> abs_path]

(* _resolve_sandbox_path(relative_path, context_dir_type) *)
resolve_sandbox_path(L, relative_path, context_dir_type) ==
    IF context_dir_type \notin { "input", "output" } THEN ValueError
    ELSE LET base_dir == ZoneRoot(context_dir_type)
             path_to_resolve == Stripped(relative_path, context_dir_type)
             abs_path == join_resolve(L, base_dir, path_to_resolve)
         IN  IF ~is_relative_to(abs_path, base_dir) /\ abs_path # base_dir
             THEN PermissionError
             ELSE [kind |-> "path", path |-> abs_path]

(* os.path.relpath(path, start) *)
CommonLen(a, b) ==
    Max({ 0 } \cup { k \in 1..Min({ Len(a), Len(b) }) : SubSeq(a, 1, k) = SubSeq(b, 1, k) })

relpath(path, start) ==
    LET k == CommonLen(path, start)
        r == [ j \in 1..(Len(start) - k) |-> ".." ] \o SubSeq(path, k + 1, Len(path))
    IN  IF r = << >> THEN << "." >> ELSE r

(* _get_path_relative_to_cwd *)
get_path_relative_to_cwd(absolute_sandboxed_path) == relpath(absolute_sandboxed_path, cwd)

(* the directories there are: the zone roots and every parent of a file *)
IsDir(F, p) ==
    \/ p \in { << >>, cwd, sandbox_dir, output_dir, input_dir }
    \/ \E f \in DOMAIN F : Len(p) < Len(f) /\ SubSeq(f, 1, Len(p)) = p

(* tools.edit_file(path, content): what it returns and the files after it *)
edit_file(L, F, path, content) ==
    LET target_path == join_resolve(L, cwd, path)
    IN  IF ~is_relative_to(target_path, cwd)
        THEN [returned |-> "Error: Access denied", files |-> F]
        ELSE IF \/ IsDir(F, target_path)
                \/ \E k \in 1..(Len(target_path) - 1) : SubSeq(target_path, 1, k) \in DOMAIN F
        THEN [returned |-> "Error writing file", files |-> F]
        ELSE [returned |-> "saved successfully",
              files |-> [ p \in DOMAIN F \cup { target_path } |->
                            IF p = target_path THEN content ELSE F[p] ]]

(* tools.read_file(path) *)
read_file(L, F, path) ==
    LET target_path == join_resolve(L, cwd, path)
    IN  IF ~is_relative_to(target_path, cwd) THEN "Error: Access denied"
        ELSE IF target_path \notin DOMAIN F THEN "Error: File not found"
        ELSE F[target_path]

(* target_dir.iterdir(): the names of the files, directories and links *)
(* directly under the directory                                        *)
iterdir(L, F, d) ==
    { p[Len(d) + 1] : p \in { q \in DOMAIN F \cup DOMAIN L \cup { cwd, sandbox_dir, output_dir, input_dir } :
                                  Len(q) > Len(d) /\ SubSeq(q, 1, Len(d)) = d } }

(* the order in which names are written; iterdir() promises none, the *)
(* results are compared as listings of one directory in one state     *)
NameOrder ==
    << "a", "App.tsx", "back", "etc", "input", "lnk", "output", "passwd",
       "plan.md", "proj", "sb", "src", "toin" >>

(* "\n".join(files) *)
RECURSIVE JoinNames(_, _)
JoinNames(order, names) ==
    IF order = << >> THEN ""
    ELSE LET rest == JoinNames(Tail(order), names)
         IN  IF Head(order) \notin names THEN rest
             ELSE IF rest = "" THEN Head(order)
             ELSE Head(order) \o "\n" \o rest

(* tools.list_files(directory) *)
list_files(L, F, directory) ==
    LET target_dir == join_resolve(L, cwd, directory)
        files_ == iterdir(L, F, target_dir)
    IN  IF ~is_relative_to(target_dir, cwd) THEN "Error: Access denied"
        ELSE IF ~IsDir(F, target_dir) THEN "Error: Directory not found"
        ELSE IF files_ = {} THEN "No files found."
        ELSE JoinNames(NameOrder, files_)

ToolReturn(returned, tool_called, F) ==
    [returned |-> returned, tool_called |-> tool_called, files |-> F]

(* an argument that is not a string (None), and the exceptions a call    *)
(* would hand on to its caller                                           *)
NotAString == << >>
Propagated == { "raise AttributeError", "raise OSError" }

(* variant: no 'except Exception' clause around the body *)
except_Exception_missing(text, r) == r

(* try: ... except Exception as e: return f"Error in sandboxed_...: ..." *)
except_Exception(text, r) ==
    IF r.returned \in Propagated THEN [r EXCEPT !.returned = text] ELSE r

(* variant: the 'output/' prefix is not required of the path *)
sandboxed_edit_file_any_prefix(L, F, path, content) ==
    LET abs_path == resolve_sandbox_path(L, path, "output")
    IN  IF abs_path.kind = "PermissionError"
        THEN ToolReturn("outside the allowed directory", FALSE, F)
        ELSE LET e == edit_file(L, F, get_path_relative_to_cwd(abs_path.path), content)
             IN  ToolReturn(e.returned, TRUE, e.files)

(* _sandboxed_edit_file(path, content) *)
sandboxed_edit_file(L, F, path, content) ==
    except_Exception("Error in sandboxed_edit_file",
        IF path = NotAString
        THEN ToolReturn("raise AttributeError", FALSE, F)
        ELSE IF ~startswith(path, "output")
        THEN ToolReturn("Error: path must be prefixed with 'output/'", FALSE, F)
        ELSE LET abs_path == resolve_sandbox_path(L, path, "output")
             IN  IF abs_path.kind = "PermissionError"
                 THEN ToolReturn("outside the allowed directory", FALSE, F)
                 ELSE LET e == edit_file(L, F, get_path_relative_to_cwd(abs_path.path), content)
                      IN  ToolReturn(e.returned, TRUE, e.files))

(* variant: a path without a zone prefix is read from the input zone *)
sandboxed_read_file_any_prefix(L, F, path) ==
    except_Exception("Error in sandboxed_read_file",
        IF path = NotAString
        THEN ToolReturn("raise AttributeError", FALSE, F)
        ELSE LET abs_path == resolve_sandbox_path(L, path,
                                 IF startswith(path, "output") THEN "output" ELSE "input")
             IN  IF abs_path.kind = "PermissionError"
                 THEN ToolReturn("outside the allowed directory", FALSE, F)
                 ELSE ToolReturn(read_file(L, F, get_path_relative_to_cwd(abs_path.path)), TRUE, F))

(* _sandboxed_read_file(path) *)
sandboxed_read_file(L, F, path) ==
    except_Exception("Error in sandboxed_read_file",
        IF path = NotAString
        THEN ToolReturn("raise AttributeError", FALSE, F)
        ELSE IF ~startswith(path, "output") /\ ~startswith(path, "input")
        THEN ToolReturn("Error: path must be prefixed with 'input/' or 'output/'", FALSE, F)
        ELSE LET abs_path == resolve_sandbox_path(L, path,
                                 IF startswith(path, "output") THEN "output" ELSE "input")
             IN  IF abs_path.kind = "PermissionError"
                 THEN ToolReturn("outside the allowed directory", FALSE, F)
                 ELSE ToolReturn(read_file(L, F, get_path_relative_to_cwd(abs_path.path)), TRUE, F))

(* _sandboxed_list_files(directory) *)
sandboxed_list_files(L, F, directory) ==
    except_Exception("Error in sandboxed_list_files",
        IF directory = NotAString
        THEN ToolReturn("raise AttributeError", FALSE, F)
        ELSE IF /\ ~startswith(directory, "output")
                /\ ~startswith(directory, "input")
                /\ directory \notin { << "input" >>, << "output" >> }
        THEN ToolReturn("Error: directory must be prefixed with 'input/' or 'output/'", FALSE, F)
        ELSE LET abs_path == resolve_sandbox_path(L, directory,
                                 IF startswith(directory, "output") THEN "output" ELSE "input")
             IN  IF abs_path.kind = "PermissionError"
                 THEN ToolReturn("outside the allowed directory", FALSE, F)
                 ELSE ToolReturn(list_files(L, F, get_path_relative_to_cwd(abs_path.path)), TRUE, F))

(* the commands the agent hands to execute_bash_command: a redirection  *)
(* into a file, the removal of a file, a command that fails, a command  *)
(* whose output cannot be decoded, and a value that is not a string     *)
ShellCommand(op, path, content) == [op |-> op, path |-> path, content |-> content]
ShellCommands ==
    { ShellCommand("write", << "..", "input", "a" >>, "v1"),
      ShellCommand("rm", << "a" >>, ""),
      ShellCommand("false", << >>, ""),
      ShellCommand("binary", << >>, ""),
      ShellCommand("None", << >>, "") }

(* subprocess.run(command, shell=True) after 'cd <directory> &&': the   *)
(* shell follows the path from that directory wherever it leads          *)
subprocess_run(L, F, directory, command) ==
    LET target == join_resolve(L, directory, command.path)
        parent_exists == Parent(target) = directory \/ IsDir(F, Parent(target))
    IN  CASE command.op = "write" ->
                IF parent_exists /\ ~IsDir(F, target)
                THEN [run |-> Ran(0, << >>, << >>),
                      files |-> [ p \in DOMAIN F \cup { target } |->
                                    IF p = target THEN command.content ELSE F[p] ]]
                ELSE [run |-> Ran(1, << >>, << "errors" >>), files |-> F]
          [] command.op = "rm" ->
                IF target \in DOMAIN F
                THEN [run |-> Ran(0, << >>, << >>),
                      files |-> [ p \in DOMAIN F \ { target } |-> F[p] ]]
                ELSE [run |-> Ran(1, << >>, << "errors" >>), files |-> F]
          [] command.op = "false" -> [run |-> Ran(1, << "errors" >>, << >>), files |-> F]
          [] command.op = "binary" -> [run |-> NotLaunched, files |-> F]
          [] OTHER -> [run |-> Ran(127, << >>, << "errors" >>), files |-> F]

(* _sandboxed_execute_bash_command(command): any command, run from the  *)
(* output directory; tools.execute_bash_command turns every outcome of  *)
(* the run into text, so nothing reaches the wrapper's except clause     *)
sandboxed_execute_bash_command(L, F, command) ==
    LET p == subprocess_run(L, F, output_dir, command)
    IN  ToolReturn(execute_bash_command(p.run), TRUE, p.files)

ToolCall(op, path, arg, returned, tool_called) ==
    [op |-> op, path |-> path, arg |-> arg, returned |-> returned, tool_called |-> tool_called]

NoCall == ToolCall("none", << >>, "", "", FALSE)

(* the paths the file tools are called with *)
ToolPaths ==
    { << "output", "a" >>, << "output", "a", "a" >>, << "output", "src", "App.tsx" >>,
      << "output", "" >>, << "output" >>, << "input" >>, << "input", "" >>,
      << "a" >>,
      << "input", "a" >>, << "input", "..", "output", "a" >>,
      << "output", "..", "input", "a" >>, << "output", "toin", "a" >>,
      << "output", "lnk", "passwd" >>, << "output", "", "etc", "passwd" >>,
      << "output", "..", "..", "plan.md" >>,
      << "output", "", "proj", "sb", "output", "a" >>,
      << "output", "sub", "..", "..", "output2", "x" >>, NotAString }

SandboxIdle ==
    /\ links = AllLinks
    /\ files = InitialFiles
    /\ call = NoCall

SandboxInit ==
    /\ links \in { AllLinks, NoLinks }
    /\ files = InitialFiles
    /\ call = NoCall

(* the agent calls edit_file *)
SandboxedEditFile ==
    /\ \E path \in ToolPaths, content \in Contents :
          \E r \in { sandboxed_edit_file(links, files, path, content) } :
              /\ files' = r.files
              /\ call' = ToolCall("edit_file", path, content, r.returned, r.tool_called)
    /\ UNCHANGED links
    /\ UNCHANGED << plan_vars, exec_vars, orch_vars, gate_vars, upload_vars >>

(* the agent calls read_file *)
SandboxedReadFile ==
    /\ \E path \in ToolPaths :
          \E r \in { sandboxed_read_file(links, files, path) } :
              call' = ToolCall("read_file", path, "", r.returned, r.tool_called)
    /\ UNCHANGED << links, files >>
    /\ UNCHANGED << plan_vars, exec_vars, orch_vars, gate_vars, upload_vars >>

(* the agent calls list_files *)
SandboxedListFiles ==
    /\ \E directory \in ToolPaths :
          \E r \in { sandboxed_list_files(links, files, directory) } :
              call' = ToolCall("list_files", directory, "", r.returned, r.tool_called)
    /\ UNCHANGED << links, files >>
    /\ UNCHANGED << plan_vars, exec_vars, orch_vars, gate_vars, upload_vars >>

(* the agent calls execute_bash_command *)
SandboxedExecuteBashCommand ==
    /\ \E command \in ShellCommands :
          \E r \in { sandboxed_execute_bash_command(links, files, command) } :
              /\ files' = r.files
              /\ call' = ToolCall("execute_bash_command", command.path, command.op,
                                  r.returned, r.tool_called)
    /\ UNCHANGED links
    /\ UNCHANGED << plan_vars, exec_vars, orch_vars, gate_vars, upload_vars >>

SandboxNext ==
    \/ SandboxedEditFile
    \/ SandboxedReadFile
    \/ SandboxedListFiles
    \/ SandboxedExecuteBashCommand

(* _resolve_sandbox_path on its own: a path string and a zone are given, *)
(* and the call answers                                                  *)
ZoneInputs == { "input", "output", "other" }

ResolveInit ==
    /\ links \in LinkSets
    /\ files = InitialFiles
    /\ \E p \in PathInputs, zone \in ZoneInputs :
          call = ToolCall("pending", p, zone, "", FALSE)

ResolveSandboxPath ==
    /\ call.op = "pending"
    /\ call' = [call EXCEPT !.op = "resolve",
                            !.returned = resolve_sandbox_path(links, call.path, call.arg)]
    /\ UNCHANGED << links, files >>
    /\ UNCHANGED << plan_vars, exec_vars, orch_vars, gate_vars, upload_vars >>
(* ------------------------------------------------------------------ *)
(* The orchestrator loop over the plan store                           *)
(*   while (task = get_next_task()) is not None:                       *)
(*       result = execute_task(task)                                   *)
(*       if result.succeeded: update_task_status(task.id, 'done', notes) *)
(* ------------------------------------------------------------------ *)
MaxDispatch == 4

(* plans with unique ids whose dependencies resolve and are acyclic *)
DocThreeTasks ==
    Join(<< <<"#"," ","M","i","g","r","a","t","i","o","n"," ","P","l","a","n">>,
            <<>>,
            <<"-"," ","["," ","]"," ","T","0","1"," ","<","!","-","-"," ","s","t","a","t","u","s",":"," ","t","o","d","o",";"," ","-","-",">">>,
            <<" "," ","-"," ","d","e","s","c","r","i","p","t","i","o","n",":"," ","I","n","i","t","i","a","l","i","z","e"," ","R","e","a","c","t"," ","w","o","r","k","s","p","a","c","e">>,
            <<" "," ","-"," ","d","e","p","e","n","d","s",":"," ","[","]">>,
            <<>>,
            <<"-"," ","["," ","]"," ","T","0","2"," ","<","!","-","-"," ","s","t","a","t","u","s",":"," ","t","o","d","o",";"," ","-","-",">">>,
            <<" "," ","-"," ","d","e","s","c","r","i","p","t","i","o","n",":"," ","C","o","p","y"," ","s","t","a","t","i","c"," ","a","s","s","e","t","s">>,
            <<" "," ","-"," ","d","e","p","e","n","d","s",":"," ","[","T","0","1","]">>,
            <<>>,
            <<"-"," ","["," ","]"," ","T","0","3">>,
            <<" "," ","-"," ","d","e","s","c","r","i","p","t","i","o","n",":"," ","S","e","t","u","p"," ","b","a","s","i","c"," ","r","o","u","t","i","n","g">>,
            <<" "," ","-"," ","d","e","p","e","n","d","s",":"," ","[","T","0","1","]">> >>, << NL >>)

DocLaterDependency ==
    Join(<< <<"-"," ","["," ","]"," ","T","0","1">>,
            <<" "," ","-"," ","d","e","p","e","n","d","s",":"," ","[","T","0","2","]">>,
            <<"-"," ","["," ","]"," ","T","0","2">> >>, << NL >>)

OrchDocs == { DocTwoTasks, DocThreeTasks, DocLaterDependency }

(* the notes a task executor hands back with its result *)
ExecutorNotes == { Some(NoteExecuteTask), Some(<<"D","o","n","e",".">>) }

OrchInit ==
    /\ file \in { Some(d) : d \in OrchDocs }
    /\ tasks = load_and_parse_plan(file, TRUE)
    /\ task_map = BuildMap(tasks)
    /\ running = TRUE
    /\ last = Call("init", << >>, "", None, None, None, None)
    /\ access = "ok"
    /\ orch_pc = "select"
    /\ current = None
    /\ dispatched = << >>
    /\ outcomes = << >>
    /\ writes = 0

(* the loop condition: get_next_task(); the loop ends on None *)
OrchSelect ==
    /\ orch_pc = "select"
    /\ Len(dispatched) < MaxDispatch
    /\ \E next \in { get_next_task(tasks, task_map) } :
          /\ last' = Call("get_next_task", << >>, "", None, next, None, None)
          /\ IF next = None
             THEN /\ orch_pc' = "stopped"
                  /\ UNCHANGED << current, dispatched >>
             ELSE /\ orch_pc' = "run"
                  /\ current' = next
                  /\ dispatched' = Append(dispatched, Get(next))
    /\ UNCHANGED << file, tasks, task_map, running, access, outcomes, writes >>
    /\ UNCHANGED << exec_vars, sandbox_vars, gate_vars, upload_vars >>

(* the executor returned success: the task is marked done with its notes *)
OrchTaskSucceeded ==
    /\ orch_pc = "run"
    /\ \E notes \in ExecutorNotes, stamp \in Stamps :
          \E u \in { update_task_status(tasks, task_map, tasks[Get(current)].id,
                                        "done", notes, stamp) } :
              /\ tasks' = u.tasks
              /\ file' = IF IsSome(u.markdown) THEN u.markdown ELSE file
              /\ writes' = IF IsSome(u.markdown) THEN writes + 1 ELSE writes
              /\ last' = Call("update_task_status", tasks[Get(current)].id, "done", notes,
                              IF IsSome(u.markdown) THEN "written" ELSE "ignored",
                              None, None)
    /\ outcomes' = Append(outcomes, TRUE)
    /\ orch_pc' = "select"
    /\ current' = None
    /\ UNCHANGED << task_map, running, access, dispatched >>
    /\ UNCHANGED << exec_vars, sandbox_vars, gate_vars, upload_vars >>

(* the executor returned failure: nothing is written *)
OrchTaskFailed ==
    /\ orch_pc = "run"
    /\ outcomes' = Append(outcomes, FALSE)
    /\ orch_pc' = "select"
    /\ current' = None
    /\ UNCHANGED << plan_vars, dispatched, writes >>
    /\ UNCHANGED << exec_vars, sandbox_vars, gate_vars, upload_vars >>


(***************************************************************************)
(* tools.upload_pdf_for_gemini: the upload of a file and the wait for its  *)
(* processing                                                              *)
(***************************************************************************)
timeout_seconds == 120
poll_sleep == 5

(* File.state.name as the service reports it; a file without a state makes *)
(* pdf_file.state.name raise AttributeError                                 *)
FileStates == { "PROCESSING", "ACTIVE", "FAILED" }
NoState == "NO_STATE"

(* seconds an iteration takes beyond its sleep: the calls to the service *)
Latencies == { 0, 5, 60 }

(* what the early part of the function comes to: a return of None before  *)
(* anything is uploaded (path outside the project, no such file, not a    *)
(* PDF, no API key), an exception before or in files.upload, an upload    *)
UploadOutcomes == { "refused", "raise", "uploaded" }

Upload(pc_, state, elapsed, polls, uploaded, deletes, returned) ==
    [pc |-> pc_, state |-> state, elapsed |-> elapsed, polls |-> polls,
     uploaded |-> uploaded, deletes |-> deletes, returned |-> returned]

(* client.files.delete inside its own try block: one attempt, whatever *)
(* comes of it                                                         *)
delete_attempt(u) == [u EXCEPT !.deletes = @ + 1]

(* variant: the function has no handler around its body *)
upload_except_Exception_missing(u) == u

(* except Exception as e: the file is deleted when pdf_file is bound, *)
(* and None is returned                                              *)
upload_except_Exception(u) ==
    IF u.returned # "raise" THEN u
    ELSE [(IF u.uploaded THEN delete_attempt(u) ELSE u) EXCEPT !.pc = "returned", !.returned = "None"]

(* variant: the file is returned whatever its last state *)
after_loop_returns_file(u) == [u EXCEPT !.pc = "returned", !.returned = "file"]

(* the statements after the loop: the file when it is ACTIVE, otherwise a *)
(* delete and None                                                        *)
after_loop(u) ==
    IF u.state = "ACTIVE"
    THEN [u EXCEPT !.pc = "returned", !.returned = "file"]
    ELSE [delete_attempt(u) EXCEPT !.pc = "returned", !.returned = "None"]

(* the loop condition read on a file just obtained: a file without a state *)
(* raises, a file in PROCESSING stays in the loop, any other leaves it     *)
observe(u, state) ==
    IF state = NoState THEN [u EXCEPT !.state = state, !.returned = "raise"]
    ELSE IF state = "PROCESSING" THEN [u EXCEPT !.state = state, !.pc = "poll"]
    ELSE after_loop([u EXCEPT !.state = state])

UploadIdle == upload = << >>

UploadInit == upload = Upload("start", "", 0, 0, FALSE, 0, "running")

(* the function up to the loop *)
UploadStart ==
    /\ upload # << >>
    /\ upload.pc = "start"
    /\ \E outcome \in UploadOutcomes, state \in FileStates \cup { NoState } :
          upload' = upload_except_Exception(
              CASE outcome = "refused" -> [upload EXCEPT !.pc = "returned", !.returned = "None"]
                [] outcome = "raise" -> [upload EXCEPT !.returned = "raise"]
                [] OTHER -> observe([upload EXCEPT !.uploaded = TRUE], state))
    /\ UNCHANGED << plan_vars, exec_vars, sandbox_vars, orch_vars, gate_vars >>

(* an iteration of the loop within the ceiling: sleep, then files.get, *)
(* which returns the file in some state or raises                      *)
UploadPoll ==
    /\ upload # << >>
    /\ upload.pc = "poll"
    /\ ~(upload.elapsed > timeout_seconds)
    /\ \E latency \in Latencies, got \in FileStates \cup { NoState, "raise" } :
          LET u == [upload EXCEPT !.elapsed = @ + poll_sleep + latency, !.polls = @ + 1]
          IN  upload' = upload_except_Exception(
                  IF got = "raise" THEN [u EXCEPT !.returned = "raise"] ELSE observe(u, got))
    /\ UNCHANGED << plan_vars, exec_vars, sandbox_vars, orch_vars, gate_vars >>

(* an iteration of the loop past the ceiling: delete and None *)
UploadTimeout ==
    /\ upload # << >>
    /\ upload.pc = "poll"
    /\ upload.elapsed > timeout_seconds
    /\ upload' = upload_except_Exception(
                     [delete_attempt(upload) EXCEPT !.pc = "returned", !.returned = "None"])
    /\ UNCHANGED << plan_vars, exec_vars, sandbox_vars, orch_vars, gate_vars >>

UploadNext == UploadStart \/ UploadPoll \/ UploadTimeout

(* ================================================================== *)
(* Properties of the plan store                                        *)
(* ================================================================== *)
Updated == last.op = "update_task_status"
Selected == last.op = "get_next_task"

(* a task is eligible: 'todo', and every dependency id resolves through *)
(* task_map to a 'done' task                                            *)
Eligible(i) ==
    /\ tasks[i].status = "todo"
    /\ \A k \in 1..Len(tasks[i].depends_on) :
          \E j \in 1..Len(tasks) :
              /\ tasks[i].depends_on[k] \in DOMAIN task_map
              /\ task_map[tasks[i].depends_on[k]] = j
              /\ tasks[j].status = "done"

(* C1: after every get_next_task call the result is the first task in      *)
(* document order that is 'todo' with all its dependencies 'done', and it   *)
(* is None exactly when no task is eligible.                                *)
C1_FirstEligibleInDocumentOrder ==
    Selected =>
        /\ (last.ret = None) <=> (\A i \in 1..Len(tasks) : ~Eligible(i))
        /\ IsSome(last.ret) =>
              /\ Get(last.ret) \in 1..Len(tasks)
              /\ Eligible(Get(last.ret))
              /\ \A i \in 1..(Get(last.ret) - 1) : ~Eligible(i)

(* the second task was returned while the first, which depends on it, is todo *)
C1_Witness ==
    /\ Selected
    /\ last.ret = Some(2)
    /\ tasks[1].status = "todo"
    /\ tasks[2].id \in { tasks[1].depends_on[k] : k \in 1..Len(tasks[1].depends_on) }

HasUnknownDependency(i) ==
    \E k \in 1..Len(tasks[i].depends_on) : tasks[i].depends_on[k] \notin Ids(tasks)

(* the plan is A, B with B depending on A alone *)
TwoTaskPlan ==
    /\ Len(tasks) = 2
    /\ tasks[1].depends_on = << >>
    /\ tasks[2].depends_on = << tasks[1].id >>
    /\ tasks[2].status = "todo"

(* C2: with A(todo), B(todo, depends_on=[A]) get_next_task returns A, and B  *)
(* once A is done; a task with a dependency id that no task of the plan has  *)
(* is never returned.                                                        *)
C2_DependencyGating ==
    Selected =>
        /\ (TwoTaskPlan /\ tasks[1].status = "todo") => last.ret = Some(1)
        /\ (TwoTaskPlan /\ tasks[1].status = "done") => last.ret = Some(2)
        /\ IsSome(last.ret) => ~HasUnknownDependency(Get(last.ret))

(* nothing is returned although a task is todo and all the dependencies it *)
(* has in the plan are done: only the unknown id holds it back             *)
C2_Witness ==
    /\ Selected
    /\ last.ret = None
    /\ \E i \in 1..Len(tasks) :
          /\ tasks[i].status = "todo"
          /\ HasUnknownDependency(i)
          /\ \A k \in 1..Len(tasks[i].depends_on) :
                tasks[i].depends_on[k] \in Ids(tasks) =>
                    \E j \in 1..Len(tasks) : /\ tasks[j].id = tasks[i].depends_on[k]
                                             /\ tasks[j].status = "done"

(* a task list with the whitespace around descriptions and notes removed *)
Trimmed(T) ==
    [ i \in 1..Len(T) |->
        [T[i] EXCEPT !.description = Strip(@),
                     !.notes = IF IsSome(@) THEN Some(Strip(Get(@))) ELSE @] ]

(* C5: after every successful update_task_status call the file parses back *)
(* to the task list in memory (ids, order, status, description,            *)
(* depends_on, notes), so that reload_plan changes nothing.                *)
C5_RoundTrip ==
    (Updated /\ last.ret = "written") =>
        Trimmed(load_and_parse_plan(file, TRUE)) = Trimmed(tasks)

(* C6: a load that follows an interrupted update_task_status yields the *)
(* task list of the file before the update or the one written by it.    *)
C6_AtomicCompletion ==
    last.op = "restart" =>
        \/ tasks = load_and_parse_plan(last.old_file, TRUE)
        \/ tasks = load_and_parse_plan(last.new_file, TRUE)

(* the header line the serializer writes for an id: the checkbox, the id, *)
(* then the end of the line or a blank                                    *)
IsHeaderLineOf(L, id) ==
    \E box \in { <<"-"," ","["," ","]"," ">>, <<"-"," ","[","x","]"," ">> } :
        /\ StartsAt(L, 1, box \o id)
        /\ (Len(L) = 6 + Len(id) \/ L[7 + Len(id)] = " ")

(* the document holds one header line for the id, and one metadata comment *)
(* opens on it                                                             *)
OneHeaderOneComment(text, id) ==
    LET lines == SplitLines(text)
        headers == { n \in 1..Len(lines) : IsHeaderLineOf(lines[n], id) }
    IN  /\ Cardinality(headers) = 1
        /\ \A n \in headers : Cardinality(Occurrences(lines[n], 1, <<"<","!","-","-">>)) = 1

(* C7: a second update_task_status(id, 'done', notes) with the arguments of *)
(* the call before it leaves the task list as the first call left it: the   *)
(* task is done, no task is added, and the document has one header line for *)
(* the id with one metadata comment.                                        *)
C7_IdempotentCompletion ==
    /\ []( (Updated /\ last.again /\ last.ret = "written")
            => OneHeaderOneComment(Get(file), last.task_id) )
    /\ [][ ( /\ Updated
             /\ last.ret = "written"
             /\ last'.op = "update_task_status"
             /\ last'.task_id = last.task_id
             /\ last'.new_status = "done"
             /\ last'.notes = last.notes )
           => ( /\ tasks' = tasks
                /\ tasks'[task_map[last.task_id]].status = "done"
                /\ Len(tasks') = Len(tasks) ) ]_plan_vars

(* the state after a completion was repeated with notes *)
C7_Witness ==
    /\ Updated
    /\ last.again
    /\ last.ret = "written"
    /\ Truthy(last.notes)
    /\ tasks[task_map[last.task_id]].notes = last.notes

(* C8: update_task_status with a status other than 'done', or with an id *)
(* that is not in the plan, returns without an exception and changes no  *)
(* task and not the file.                                                *)
C8_OtherStatusIsNoOp ==
    [][ ( /\ last'.op = "update_task_status"
          /\ (last'.new_status # "done" \/ last'.task_id \notin Ids(tasks)) )
        => ( /\ last'.ret = "ignored"
             /\ tasks' = tasks
             /\ task_map' = task_map
             /\ file' = file ) ]_plan_vars

(* 'failed' was requested for a task that is done, and the task is done *)
C8_Witness ==
    /\ Updated
    /\ last.new_status = "failed"
    /\ last.ret = "ignored"
    /\ last.task_id \in DOMAIN task_map
    /\ tasks[task_map[last.task_id]].status = "done"
    /\ IsSome(file)

(* C9: over get_next_task and update_task_status calls a done task stays *)
(* done, and a task's status is always 'todo' or 'done'.                 *)
C9_StatusMonotonic ==
    /\ [](\A i \in 1..Len(tasks) : tasks[i].status \in { "todo", "done" })
    /\ [][ last'.op \in { "get_next_task", "update_task_status" }
           => ( /\ Len(tasks') = Len(tasks)
                /\ \A i \in 1..Len(tasks) :
                      tasks[i].status = "done" => tasks'[i].status = "done" ) ]_plan_vars

(* a done task is still done after 'todo' was requested for it twice *)
C9_Witness ==
    /\ Updated
    /\ last.again
    /\ last.new_status = "todo"
    /\ last.task_id \in DOMAIN task_map
    /\ tasks[task_map[last.task_id]].status = "done"

(***************************************************************************)
(* C18: when update_task_status rewrites the document, every task that is  *)
(* still 'todo' appears in the new document with exactly the lines it was  *)
(* parsed from (its raw_lines), for each header syntax the parser accepts. *)
(* Stated for an update that follows the parsing of the document at once.  *)
(***************************************************************************)
IsBlockOf(block, lines) ==
    \E k \in 0..(Len(lines) - Len(block)) : SubSeq(lines, k + 1, k + Len(block)) = block

JustParsed == last.op \in { "init", "reload_plan" } /\ IsSome(file)

C18_TodoTasksVerbatim ==
    [][ ( /\ JustParsed
          /\ last'.op = "update_task_status"
          /\ last'.ret = "written" )
        => LET parsed == parse_plan_markdown(Get(file))
               written == SplitLines(Get(file'))
           IN  \A i \in 1..Len(tasks') :
                  tasks'[i].status = "todo" => IsBlockOf(parsed[i].raw_lines, written) ]_plan_vars

(***************************************************************************)
(* C26: when the write of the plan file fails inside update_task_status,   *)
(* no exception leaves the call and the plan is unchanged: the status and  *)
(* notes of the task in memory are what they were before the call, and     *)
(* the file is what it was, so that memory and disk still agree.           *)
(***************************************************************************)
WriteFailed(c) == c.op = "update_task_status" /\ c.ret = "write_failed"

C26_FailedWriteLeavesPlanUnchanged ==
    [][ WriteFailed(last') => ( tasks' = tasks /\ file' = file ) ]_plan_vars

(***************************************************************************)
(* C27: loading a plan never raises: when the plan file is missing,        *)
(* unreadable, or holds no task header line, the plan has no tasks and an  *)
(* empty task_map, get_next_task returns None, and update_task_status on   *)
(* any id changes nothing and neither creates nor writes the file.         *)
(***************************************************************************)
Degraded ==
    \/ file = None
    \/ access # "ok"
    \/ parse_plan_markdown(Get(file)) = << >>

C27_LoadNeverRaises ==
    /\ [](last.op = "load" => last.ret = "loaded")
    /\ []((Degraded /\ last.op # "init") =>
              /\ running
              /\ tasks = << >>
              /\ task_map = BuildMap(<< >>)
              /\ get_next_task(tasks, task_map) = None)
    /\ [][ (Degraded /\ last'.op = "update_task_status")
           => ( file' = file /\ tasks' = tasks /\ last'.ret = "ignored" ) ]_plan_vars

(***************************************************************************)
(* C28: every task produced by parsing has a non-empty description: a task *)
(* without a description line, or with a description line whose text is    *)
(* empty or blank, has the placeholder text as its description.            *)
(***************************************************************************)
DescribingLines(raw_lines) ==
    { k \in 1..Len(raw_lines) :
         /\ IsSome(MatchDesc(raw_lines[k]))
         /\ Strip(Get(MatchDesc(raw_lines[k]))) # << >> }

C28_DescriptionNeverEmpty ==
    (last.op = "load" /\ running /\ access = "ok" /\ IsSome(file)) =>
        LET parsed == parse_plan_markdown(Get(file))
        IN  \A i \in 1..Len(tasks) :
               /\ tasks[i].description # << >>
               /\ DescribingLines(parsed[i].raw_lines) = { } => tasks[i].description = NoDescription

(***************************************************************************)
(* C29: in every plan state reached by load, reload and updates, every     *)
(* task has a non-empty id, task_map[id].id = id for every key, the keys   *)
(* of task_map are exactly the ids of the tasks in the list, and every     *)
(* value of task_map is an element of the list.                            *)
(***************************************************************************)
C29_TaskMapMatchesTasks ==
    /\ \A i \in 1..Len(tasks) : tasks[i].id # << >>
    /\ DOMAIN task_map = Ids(tasks)
    /\ \A id \in DOMAIN task_map :
          /\ task_map[id] \in 1..Len(tasks)
          /\ tasks[task_map[id]].id = id

(* a plan that names one id twice was updated and then reloaded *)
C29_Witness ==
    /\ last.op = "reload_plan"
    /\ Len(tasks) = 3
    /\ Cardinality(DOMAIN task_map) = 2
    /\ \E i \in 1..Len(tasks) : tasks[i].status = "done"

(* the id written on a header line: the longest run of letters, digits, '_' *)
(* and '-' after the checkbox and the opening stars of the bold form        *)
WrittenId(L) ==
    LET p == HeaderPrefix(L)
        s == IF StartsAt(L, p, <<"*","*">>) THEN p + 2 ELSE p
    IN  SubSeq(L, s, SkipWhile(L, s, IdChar) - 1)

(***************************************************************************)
(* C30: the id parsed from a header line, in any of the accepted forms and *)
(* with or without a metadata comment, is the complete id written on the   *)
(* line, for every id of letters, digits, '_' and '-'; the ids named in    *)
(* depends lists therefore resolve.                                        *)
(***************************************************************************)
C30_ParsedIdIsWrittenId ==
    (last.op \in { "load", "reload_plan" } /\ last.ret = "loaded" /\ tasks # << >>) =>
        LET parsed == parse_plan_markdown(Get(file))
        IN  \A i \in 1..Len(tasks) : tasks[i].id = WrittenId(parsed[i].raw_lines[1])

(* the last line of a task's block that the pattern matches, None when no *)
(* line of the block does                                                 *)
LastMatch(block, Pattern(_)) ==
    LET hits == { n \in 2..Len(block) : IsSome(Pattern(block[n])) }
    IN  IF hits = {} THEN None ELSE Some(Strip(Get(Pattern(block[Max(hits)]))))

Loaded == last.op \in { "load", "reload_plan" } /\ last.ret = "loaded" /\ tasks # << >>

(***************************************************************************)
(* C31: each description or depends line is attached to the most recently  *)
(* opened task header and to no other task; a body line before the first   *)
(* header is dropped and creates no task; a later description or depends   *)
(* line of the same task replaces the earlier one.                         *)
(***************************************************************************)
C31_LastBodyLineWins ==
    Loaded =>
        LET lines == SplitLines(Get(file))
            headers == { n \in 1..Len(lines) : MatchTaskLine(lines[n]).matched }
            parsed == parse_plan_markdown(Get(file))
        IN  /\ Len(tasks) = Cardinality(headers)
            /\ \A i \in 1..Len(tasks) :
                  LET d == LastMatch(parsed[i].raw_lines, MatchDesc)
                      p == LastMatch(parsed[i].raw_lines, MatchDepends)
                  IN  /\ IsBlockOf(parsed[i].raw_lines, lines)
                      /\ IsSome(d) => tasks[i].description = Get(d)
                      /\ IsSome(p) => tasks[i].depends_on = DepList(Get(p))

(* the positions of the tasks that task i names in depends_on *)
DependsOnPos(T, i) ==
    { j \in 1..Len(T) : \E k \in 1..Len(T[i].depends_on) : T[i].depends_on[k] = T[j].id }

(* the positions reached from the set S in at most n steps along depends_on *)
RECURSIVE ReachedFrom(_, _, _)
ReachedFrom(T, S, n) ==
    IF n = 0 THEN S
    ELSE ReachedFrom(T, S \cup UNION { DependsOnPos(T, j) : j \in S }, n - 1)

(* the tasks that task i depends on, directly or through other tasks *)
DependsOnTransitively(T, i) == ReachedFrom(T, DependsOnPos(T, i), Len(T))

OnCycle(T, i) == i \in DependsOnTransitively(T, i)

(* the tasks on a cycle and the tasks that depend on one of them *)
Deadlocked(T) ==
    { i \in 1..Len(T) : \E j \in DependsOnTransitively(T, i) \cup { i } : OnCycle(T, j) }

(***************************************************************************)
(* C34: dependency cycles are not detected and deadlock silently. From a   *)
(* plan in which every task on a cycle (a self-dependency included) is     *)
(* 'todo', and with update_task_status applied only to tasks returned by   *)
(* get_next_task, no task on the cycle and no task that depends on it      *)
(* through other tasks is returned by get_next_task or becomes 'done';     *)
(* loading the plan reports no error.                                      *)
(***************************************************************************)
C34_CyclesDeadlockSilently ==
    /\ last.op = "load" => (last.ret = "loaded" /\ tasks = load_and_parse_plan(file, TRUE))
    /\ \A i \in Deadlocked(tasks) : tasks[i].status = "todo"
    /\ (last.op = "get_next_task" /\ IsSome(last.ret)) => Get(last.ret) \notin Deadlocked(tasks)

(* every task off the cycle is done, the tasks held by the cycle are left, *)
(* and get_next_task returned None                                        *)
C34_Witness ==
    /\ last.op = "get_next_task"
    /\ last.ret = None
    /\ Cardinality(Deadlocked(tasks)) >= 3
    /\ \E i \in 1..Len(tasks) : OnCycle(tasks, i) /\ DependsOnPos(tasks, i) # { i }
    /\ \A i \in 1..Len(tasks) : i \notin Deadlocked(tasks) => tasks[i].status = "done"

(* the lines of a document that belong to no task: the parser opens a task *)
(* at a header line and gives it every line up to the next header, so     *)
(* these are the lines before the first header                            *)
NonTaskLines(text) ==
    LET lines == SplitLines(text)
        headers == { n \in 1..Len(lines) : MatchTaskLine(lines[n]).matched }
    IN  { lines[n] : n \in { m \in 1..Len(lines) : \A h \in headers : m < h } }

(***************************************************************************)
(* C35: serializing the plan preserves the document's non-task lines       *)
(* (headings, file-tree and package sections, free text): after            *)
(* update_task_status rewrote the file, every line of the document that    *)
(* did not belong to a task is still present.                              *)
(***************************************************************************)
C35_NonTaskLinesPreserved ==
    [][ (last'.op = "update_task_status" /\ last'.ret = "written") =>
          \A line \in NonTaskLines(Get(file)) :
             \E n \in 1..Len(SplitLines(Get(file'))) : SplitLines(Get(file'))[n] = line ]_plan_vars

(***************************************************************************)
(* C36: for every plan document, one in which two header lines carry the   *)
(* same id included, after update_task_status(t.id, 'done') is called for  *)
(* the task t that get_next_task just returned, t has status 'done', so    *)
(* that get_next_task does not return t again.                             *)
(***************************************************************************)
C36_ReturnedTaskBecomesDone ==
    [][ (last.op = "get_next_task" /\ IsSome(last.ret) /\ last'.op = "update_task_status") =>
          tasks'[Get(last.ret)].status = "done" ]_plan_vars

HasText(o) == o # None /\ o # Some(<< >>)

(***************************************************************************)
(* C37: update_task_status(id, 'done', notes) changes only the status and  *)
(* the notes of the task with that id: the number and order of the tasks,  *)
(* every task's id, description and depends_on, and every other task's     *)
(* status and notes are unchanged; when notes is absent or empty the       *)
(* task's notes are kept.                                                  *)
(***************************************************************************)
C37_UpdateChangesStatusAndNotesOnly ==
    [][ (last'.op = "update_task_status" /\ last'.ret = "written") =>
          LET k == task_map[last'.task_id]
          IN  /\ Len(tasks') = Len(tasks)
              /\ \A i \in 1..Len(tasks) :
                    /\ tasks'[i].id = tasks[i].id
                    /\ tasks'[i].description = tasks[i].description
                    /\ tasks'[i].depends_on = tasks[i].depends_on
                    /\ i # k => tasks'[i] = tasks[i]
              /\ tasks'[k].status = "done"
              /\ tasks'[k].notes = IF HasText(last'.notes) THEN last'.notes ELSE tasks[k].notes
       ]_plan_vars

(* a task that had notes was completed with empty notes and kept them, *)
(* next to a task that is still 'todo'                                 *)
C37_Witness ==
    /\ last.op = "update_task_status"
    /\ last.ret = "written"
    /\ last.notes = Some(<< >>)
    /\ HasText(tasks[task_map[last.task_id]].notes)
    /\ \E i \in 1..Len(tasks) : tasks[i].status = "todo"

(* ------------------------------------------------------------------ *)
(* Sandbox containment                                                 *)
(* ------------------------------------------------------------------ *)
(* a resolved path is canonical when none of its names is empty, "."   *)
(* or "..", and no place along it is a symbolic link                   *)
IsCanonical(L, q) ==
    /\ \A k \in 1..Len(q) : q[k] \notin { "", ".", ".." }
    /\ \A k \in 1..Len(q) : SubSeq(q, 1, k) \notin DOMAIN L

Resolved == call.op = "resolve" /\ call.arg \in { "input", "output" }

(* C3: for every path string and each of the zones input and output,    *)
(* _resolve_sandbox_path either returns a canonical path equal to or    *)
(* below the zone's root or raises PermissionError; a path outside the  *)
(* zone is never returned, and whether it raises is decided by where    *)
(* the canonical path lies, not by the spelling of the path string      *)
C3_SandboxContainment ==
    Resolved =>
        LET root == ZoneRoot(call.arg)
            canonical == join_resolve(links, root, Stripped(call.path, call.arg))
        IN  /\ call.returned.kind \in { "path", "PermissionError" }
            /\ call.returned.kind = "path" =>
                  /\ is_relative_to(call.returned.path, root)
                  /\ IsCanonical(links, call.returned.path)
            /\ call.returned.kind = "PermissionError" <=> ~is_relative_to(canonical, root)

(* a path string spelled under the output root whose canonical path, *)
(* through a symbolic link, is outside it: the call raises           *)
C3_Witness ==
    /\ Resolved
    /\ call.arg = "output"
    /\ call.path = << "output", "lnk", "passwd" >>
    /\ << "proj", "sb", "output", "lnk" >> \in DOMAIN links
    /\ call.returned = PermissionError

(* ------------------------------------------------------------------ *)
(* Write isolation                                                     *)
(* ------------------------------------------------------------------ *)
EscapesOutput(L, path) ==
    ~is_relative_to(join_resolve(L, output_dir, Tail(path)), output_dir)

Refused(c) ==
    /\ c.op = "edit_file"
    /\ \/ ~startswith(c.path, "output")
       \/ EscapesOutput(links, c.path)

ErrorResults ==
    { "Error: path must be prefixed with 'output/'", "outside the allowed directory",
      "Error in sandboxed_edit_file" }

(* C4: edit_file called with a path that is not prefixed 'output/' (a    *)
(* path tagged 'input' among them), or with an 'output/' path whose      *)
(* canonical path is outside the output root, returns an error, does not *)
(* call the underlying edit_file, and leaves every file as it was        *)
C4_WriteIsolation ==
    /\ [](Refused(call) => call.returned \in ErrorResults /\ ~call.tool_called)
    /\ [][Refused(call') => files' = files]_sandbox_vars

(* an 'output/' path that leads into the input zone has been refused *)
C4_Witness ==
    /\ Refused(call)
    /\ call.path = << "output", "..", "input", "a" >>
    /\ call.returned = "outside the allowed directory"
    /\ \E p \in DOMAIN files : is_relative_to(p, output_dir)

(* ------------------------------------------------------------------ *)
(* Retry bound of the dispatch phase                                   *)
(* ------------------------------------------------------------------ *)
DispatchOver == pc \in { "validate", "fix", "done" } /\ dispatch_calls > 0

(* C10: the dispatch phase of execute_task invokes the agent at most 3   *)
(* times; two InternalServerErrors followed by a response mean exactly 3 *)
(* invocations, and success when validation then passes at once; an      *)
(* InternalServerError on every attempt means failure after exactly 3    *)
(* invocations and no validation run; the delay is slept once after each *)
(* failed attempt but the last                                           *)
C10_DispatchRetryBound ==
    /\ dispatch_calls <= max_retries
    /\ server_errors <= dispatch_calls
    /\ (DispatchOver /\ server_errors = 2 /\ dispatch_calls > server_errors)
          => dispatch_calls = 3
    /\ (pc = "done" /\ server_errors = 2 /\ validations = 1 /\ fix_calls = 0
            /\ notes_log # << >> /\ notes_log[Len(notes_log)][1] = "passed")
          => result = Returned(TRUE, "passed")
    /\ (DispatchOver /\ server_errors = dispatch_calls)
          => /\ dispatch_calls = 3
             /\ validations = 0
             /\ result = Returned(FALSE, "server_error_after_retries")
    /\ slept = retry_delay_seconds * Min({ server_errors, max_retries - 1 })
    /\ (pc = "dispatch" => slept = retry_delay_seconds * dispatch_calls)

(* the third attempt has answered after two InternalServerErrors and the *)
(* validation has passed                                                 *)
C10_Witness ==
    /\ pc = "done"
    /\ server_errors = 2
    /\ dispatch_calls = 3
    /\ slept = 2 * retry_delay_seconds
    /\ result = Returned(TRUE, "passed")

(* every attempt has raised InternalServerError *)
C10_WitnessExhausted ==
    /\ pc = "done"
    /\ server_errors = 3
    /\ dispatch_calls = 3
    /\ validations = 0
    /\ slept = 2 * retry_delay_seconds

(* ------------------------------------------------------------------ *)
(* The fix loop of execute_task                                        *)
(* ------------------------------------------------------------------ *)
(* the pieces of notes that record a fix response, in order *)
FixEntries == SelectSeq(notes_log, LAMBDA e : e[1] = "fix")

(* the latest fix response holds the phrase "i cannot" in some casing *)
LastFixSaysICannot ==
    /\ FixEntries # << >>
    /\ Contains(LowerText(FixEntries[Len(FixEntries)][3]), << "i", "cannot" >>)

(* C11: once a fix response holds a give-up phrase ("I cannot", in any     *)
(* casing), execute_task has returned failure, the validation runs number  *)
(* as many as the fix invocations (none followed the response), and from   *)
(* then on this task sees no validation run and no agent invocation        *)
C11_SurrenderEndsFixLoop ==
    /\ [](LastFixSaysICannot =>
            /\ pc \in { "done", "idle" }
            /\ result = Returned(FALSE, "gave_up")
            /\ validations = fix_calls
            /\ fix_calls = Len(FixEntries))
    /\ [][LastFixSaysICannot =>
            /\ validations' <= validations
            /\ fix_calls' <= fix_calls
            /\ dispatch_calls' <= dispatch_calls]_exec_vars

(* the second fix response said "I cannot" and execute_task has returned *)
C11_Witness ==
    /\ LastFixSaysICannot
    /\ pc = "done"
    /\ fix_calls = 2
    /\ validations = 2

(* C12: execute_task returns success only straight after a validation run   *)
(* that passed: the last piece of its notes is the passing run, one more     *)
(* validation has run than fix invocations were made, and the number of fix  *)
(* iterations recorded there is the number of fix invocations of this task   *)
C12_SuccessOnlyAfterPassedValidation ==
    (IsSome(result) /\ Get(result).success) =>
        /\ notes_log # << >>
        /\ notes_log[Len(notes_log)][1] = "passed"
        /\ notes_log[Len(notes_log)][2] = fix_calls
        /\ Len(FixEntries) = fix_calls
        /\ validations = fix_calls + 1
        /\ Len(notes_log) > 1
        /\ notes_log[Len(notes_log) - 1][1] \in { "initial", "fix" }

(* success after two fix invocations *)
C12_Witness ==
    /\ IsSome(result)
    /\ Get(result).success
    /\ fix_calls = 2
    /\ notes_log[Len(notes_log)] = << "passed", 2 >>

(* the fix phase was entered: a validation has run for this task *)
InFixLoop == validations > 0

ExitsOfFixLoop == { "passed", "gave_up", "fix_exception" }

(* C19: the validate/fix loop has no cap on its iterations: it is left only  *)
(* by a passing validation, a give-up phrase in a fix response, or an         *)
(* exception of the fix invocation, which is not retried; as long as the      *)
(* validation fails and the agent answers without giving up, another          *)
(* validation and another fix invocation follow                               *)
C19_FixLoopUncapped ==
    /\ (InFixLoop /\ pc \in { "done", "idle" }) =>
          /\ IsSome(result)
          /\ Get(result).outcome \in ExitsOfFixLoop
          /\ (Get(result).outcome = "fix_exception" =>
                /\ validations = fix_calls
                /\ Len(FixEntries) = fix_calls - 1
                /\ notes_log[Len(notes_log) - 1][1] = "fix_exception")
    /\ pc = "validate" => ENABLED (Validate /\ pc' = "fix")
    /\ (pc = "fix" /\ fix_iteration < MaxFix) => ENABLED (FixResponse /\ pc' = "validate")

(* the loop is still running after as many fix invocations as are followed *)
C19_Witness ==
    /\ pc = "fix"
    /\ fix_iteration = MaxFix
    /\ fix_calls = MaxFix
    /\ validations = MaxFix + 1

(* C20: an exception of the dispatch send_message that is not the         *)
(* InternalServerError ends execute_task with failure at that invocation: *)
(* every invocation before it raised InternalServerError, and no          *)
(* validation run and no fix invocation was made                          *)
C20_OtherExceptionNotRetried ==
    /\ [](result = Returned(FALSE, "non_retryable") =>
            /\ pc \in { "done", "idle" }
            /\ dispatch_calls = server_errors + 1
            /\ validations = 0
            /\ fix_calls = 0)
    /\ [][(pc = "dispatch" /\ dispatch_calls' = dispatch_calls + 1
             /\ server_errors' = server_errors /\ pc' # "validate"
             /\ result' # Returned(FALSE, "llm_reported_failure"))
          => result' = Returned(FALSE, "non_retryable")]_exec_vars

(* the first invocation raised, and execute_task has returned *)
C20_Witness ==
    /\ result = Returned(FALSE, "non_retryable")
    /\ dispatch_calls = 1
    /\ slept = 0

(***************************************************************************)
(* C15: _run_lint_and_typecheck reports passed exactly when both commands  *)
(* actually exited with code 0, whatever text they printed and also when a *)
(* command could not be run and the tool returned its error text.          *)
(***************************************************************************)
ExitedZero(run) == run.launched /\ run.returncode = 0
GateReturned == gate # << >> /\ IsSome(gate.returned)
C15_PassedIffBothExitZero ==
    GateReturned =>
        ( Get(gate.returned).success <=> ( ExitedZero(gate.lint) /\ ExitedZero(gate.typecheck) ) )

(***************************************************************************)
(* C16: none of the four sandboxed tools hands an exception on to the      *)
(* agent: for every argument and every internal failure (a path outside    *)
(* the sandbox, a missing file or directory, a failed write, a command     *)
(* that exits with a code other than 0 or cannot be run, an argument that  *)
(* is not a string) the call returns text.                                 *)
(***************************************************************************)
ToolOps == { "read_file", "edit_file", "list_files", "execute_bash_command" }
C16_NoExceptionPropagates ==
    call.op \in ToolOps =>
        IF call.op = "execute_bash_command"
        THEN Len(call.returned) > 0
        ELSE call.returned \notin Propagated

(* read_file was called with a value that is not a string and returned text *)
C16_Witness ==
    /\ call.op = "read_file"
    /\ call.path = NotAString
    /\ call.returned = "Error in sandboxed_read_file"

(***************************************************************************)
(* C17: no sequence of calls to the four sandboxed tools creates, changes  *)
(* or deletes anything under the input root: the input zone holds the same *)
(* files with the same contents as before the task.                        *)
(***************************************************************************)
InputZone(F) == [ p \in { q \in DOMAIN F : is_relative_to(q, input_dir) } |-> F[p] ]
C17_InputZoneUntouched == InputZone(files) = InputZone(InitialFiles)

(***************************************************************************)
(* C13: for a plan with unique ids whose dependencies resolve and are      *)
(* acyclic, the orchestrator loop with an executor that always succeeds    *)
(* terminates with every task 'done', has rewritten the plan document      *)
(* exactly once per completed task, and a final get_next_task returns None *)
(***************************************************************************)
AllDone == \A i \in 1..Len(tasks) : tasks[i].status = "done"
Completed == Cardinality({ i \in 1..Len(outcomes) : outcomes[i] })
DoneCount == Cardinality({ i \in 1..Len(tasks) : tasks[i].status = "done" })

C13_LoopCompletesPlan ==
    /\ [](writes = Completed /\ writes = DoneCount)
    /\ [](orch_pc = "stopped" =>
              /\ AllDone
              /\ writes = Len(tasks)
              /\ get_next_task(tasks, task_map) = None)
    /\ <>(orch_pc = "stopped")

(* the loop has ended on the three-task plan after three rewrites *)
C13_Witness ==
    /\ orch_pc = "stopped"
    /\ Len(tasks) = 3
    /\ AllDone
    /\ writes = 3
    /\ dispatched = << 1, 2, 3 >>

(***************************************************************************)
(* C14: when the executor returns failure for a task, the orchestrator     *)
(* does not mark the task done and does not dispatch it again in the same  *)
(* pass; the loop then ends for lack of eligible tasks.                    *)
(***************************************************************************)
C14_FailedTaskNotDispatchedAgain ==
    \A i \in 1..Len(outcomes) :
        ~outcomes[i] =>
            /\ tasks[dispatched[i]].status # "done"
            /\ \A j \in (i + 1)..Len(dispatched) : dispatched[j] # dispatched[i]

(***************************************************************************)
(* C21: a dispatch response that starts with 'Error:' or contains one of   *)
(* the dispatch give-up phrases makes execute_task return failure with no  *)
(* validation run and no fix invocation; and validation is run in a task   *)
(* only after a dispatch response that does not match that set.            *)
(***************************************************************************)
MatchesSurrenderSet(text) ==
    \/ (text # << >> /\ text[1] = "Error:")
    \/ \E phrase \in dispatch_failure_keywords : Contains(LowerText(text), phrase)

FirstEntryIs(log, kinds) == log # << >> /\ log[1][1] \in kinds

C21_SurrenderSkipsValidation ==
    /\ [](result = Returned(FALSE, "llm_reported_failure") =>
              /\ pc \in { "done", "idle" }
              /\ validations = 0
              /\ fix_calls = 0
              /\ FirstEntryIs(notes_log, { "failed" })
              /\ MatchesSurrenderSet(notes_log[1][2]))
    /\ [](validations > 0 =>
              /\ FirstEntryIs(notes_log, { "initial" })
              /\ ~MatchesSurrenderSet(notes_log[1][2])
              /\ dispatch_calls > server_errors)
    /\ [][ ( /\ pc = "dispatch"
             /\ FirstEntryIs(notes_log', { "initial", "failed" })
             /\ MatchesSurrenderSet(notes_log'[1][2]) )
           => ( result' = Returned(FALSE, "llm_reported_failure") /\ pc' = "done" ) ]_exec_vars

(* the response 'Error: no such file' arrived after one server error *)
C21_Witness ==
    /\ result = Returned(FALSE, "llm_reported_failure")
    /\ notes_log = << << "failed", << "Error:", "no", "such", "file" >> >> >>
    /\ server_errors = 1
    /\ dispatch_calls = 2
    /\ validations = 0

(***************************************************************************)
(* C22: in _run_lint_and_typecheck the exit code used for the pass         *)
(* decision is 0 when the captured output has no 'exited with code' marker *)
(* and, for both commands alike, 1 when the marker is there but no number  *)
(* can be read after it; otherwise it is the number after the marker.      *)
(***************************************************************************)
HasMarker(output) == \E k \in 1..Len(output) : output[k] = Marker
AfterMarker(output) ==
    LET first == Min({ k \in 1..Len(output) : output[k] = Marker })
        rest == SubSeq(output, first + 1, Len(output))
        rules == { k \in 1..Len(rest) : rest[k] \in { Marker, "---" } }
    IN  IF rules = {} THEN rest ELSE SubSeq(rest, 1, Min(rules) - 1)
Readable(output) == Len(AfterMarker(output)) = 1 /\ AfterMarker(output)[1] \in { "0", "1", "2", "127" }
CodeUsed(output, unreadable) ==
    IF ~HasMarker(output) THEN 0
    ELSE IF Readable(output) THEN NumberOf(AfterMarker(output)[1])
    ELSE unreadable
GateDecidesWith(unreadable) ==
    GateReturned =>
        ( Get(gate.returned).success <=>
              /\ CodeUsed(Get(gate.returned).lint_errors, unreadable) = 0
              /\ CodeUsed(Get(gate.returned).type_errors, unreadable) = 0 )

C22_UnreadableMarkerCountsAsOne == GateDecidesWith(1)

(* as first stated: a marker whose number cannot be read counts as 0 *)
C22_UnreadableMarkerCountsAsZero == GateDecidesWith(0)

(* the lint run exited 0 and printed the marker with no number after it; *)
(* the type check is clean; the gate did not pass                        *)
C22_Witness ==
    /\ GateReturned
    /\ gate.lint = Ran(0, << Marker, "unknown" >>, << >>)
    /\ gate.typecheck = Ran(0, << "ok" >>, << >>)
    /\ ~Get(gate.returned).success

(***************************************************************************)
(* C23: each execute_task call creates a fresh session with an empty       *)
(* history before its first send_message; every dispatch retry and fix     *)
(* invocation of the task goes to that session; and no invocation of one   *)
(* task goes to a session that invocations of another task went to.        *)
(***************************************************************************)
Invocations == dispatch_calls + fix_calls
C23_OneSessionPerTask ==
    /\ (pc = "dispatch" /\ Invocations = 0) => (history = 0 /\ chat \notin old /\ chat > 0)
    /\ Invocations = 0 => used = { }
    /\ Invocations > 0 => used = { chat }
    /\ used \cap old = { }

(* the second task has retried its dispatch and sent a fix prompt, all on *)
(* the second session                                                     *)
C23_Witness ==
    /\ old = { 1 }
    /\ used = { 2 }
    /\ server_errors = 1
    /\ fix_calls = 1
    /\ history = 2

(***************************************************************************)
(* C24: the notes execute_task returns are an append-only log: for every   *)
(* outcome reached after a dispatch response (success, give-up, exception  *)
(* in a fix invocation) they hold, in order, the initial response, then    *)
(* for each failed validation its lint and type diagnostics followed by    *)
(* that iteration's fix response or exception; and nothing appended is     *)
(* removed or reordered afterwards.                                        *)
(***************************************************************************)
IsPrefix(s, t) == Len(s) <= Len(t) /\ SubSeq(t, 1, Len(s)) = s

Closing(outcome, n) ==
    CASE outcome = "passed" -> << << "passed", n >> >>
      [] outcome = "gave_up" -> << << "cannot_fix" >>, << "remain", n >> >>
      [] OTHER -> << << "remain", n >> >>

(* the entries of the k-th failed validation, at their places in the log *)
IterationLogged(log, k, last_kind) ==
    /\ log[3 * k - 1][1] = "lint" /\ log[3 * k - 1][2] = k
    /\ log[3 * k][1] = "type" /\ log[3 * k][2] = k
    /\ log[3 * k + 1][1] = last_kind /\ log[3 * k + 1][2] = k

AuditTrail(log, outcome) ==
    LET closing == Closing(outcome, fix_iteration) IN
    /\ Len(log) = 1 + 3 * fix_calls + Len(closing)
    /\ log[1][1] = "initial"
    /\ \A k \in 1..fix_calls :
          IterationLogged(log, k, IF k = fix_calls /\ outcome = "fix_exception"
                                  THEN "fix_exception" ELSE "fix")
    /\ SubSeq(log, 2 + 3 * fix_calls, Len(log)) = closing

C24_NotesAppendOnly ==
    /\ []( ( IsSome(result) /\ Get(result).outcome \in { "passed", "gave_up", "fix_exception" } )
             => AuditTrail(notes_log, Get(result).outcome) )
    /\ [][ (pc \in { "validate", "fix" }) => (IsPrefix(notes_log, notes_log')) ]_exec_vars

(* a task gave up in its second fix invocation *)
C24_Witness ==
    /\ result = Returned(FALSE, "gave_up")
    /\ fix_calls = 2
    /\ Len(notes_log) = 9
    /\ notes_log[7][1] = "fix"

(***************************************************************************)
(* C25: in every orchestrator run, when a task is handed to the executor   *)
(* it has status 'todo', each id in its depends_on names a task that is    *)
(* already 'done', and no other task is executing: every task dispatched   *)
(* before it has returned its outcome.                                     *)
(***************************************************************************)
Executing == orch_pc = "run"
C25_DispatchedTaskIsEligible ==
    /\ Executing =>
          /\ IsSome(current)
          /\ tasks[Get(current)].status = "todo"
          /\ \A k \in 1..Len(tasks[Get(current)].depends_on) :
                LET dep == tasks[Get(current)].depends_on[k]
                IN  /\ dep \in DOMAIN task_map
                    /\ tasks[task_map[dep]].status = "done"
          /\ Len(dispatched) = Len(outcomes) + 1
          /\ dispatched[Len(dispatched)] = Get(current)
    /\ ~Executing => ( current = None /\ Len(dispatched) = Len(outcomes) )

(* the first task of the plan is dispatched after the later task it *)
(* depends on was done                                              *)
C25_Witness ==
    /\ Executing
    /\ dispatched = << 2, 1 >>
    /\ tasks[1].depends_on # << >>
    /\ tasks[2].status = "done"

(* the directory names the task prompt offers for listing a zone's root *)
RootNames == { << "input" >>, << "input", "" >>, << "output" >>, << "output", "" >> }

(* what list_files writes for a directory there is *)
ListingOf(L, F, d) ==
    IF iterdir(L, F, d) = {} THEN "No files found." ELSE JoinNames(NameOrder, iterdir(L, F, d))

(***************************************************************************)
(* C32: the sandboxed list operation called with 'input' or 'input/'       *)
(* lists the root of the input zone, and called with 'output' or           *)
(* 'output/' lists the root of the output zone.                            *)
(***************************************************************************)
C32_BareNameListsZoneRoot ==
    (call.op = "list_files" /\ call.path \in RootNames) =>
        /\ call.tool_called
        /\ call.returned = ListingOf(links, files, ZoneRoot(call.path[1]))

ReadErrors ==
    { "Error: path must be prefixed with 'input/' or 'output/'",
      "Error in sandboxed_read_file" }

Tagged(path) == startswith(path, "input") \/ startswith(path, "output")

(***************************************************************************)
(* C33: read_file accepts only paths prefixed 'input/' or 'output/'; for   *)
(* any other path it returns an error text and the underlying read is not  *)
(* invoked. For a tagged path the zone of the prefix is the one resolved   *)
(* in: what is returned is the content of the file at the canonical path   *)
(* inside that zone, a refusal when the canonical path leaves the zone,    *)
(* and a not-found text when the target is not a regular file.             *)
(***************************************************************************)
C33_ReadStaysInTaggedZone ==
    call.op = "read_file" =>
        IF ~Tagged(call.path)
        THEN ~call.tool_called /\ call.returned \in ReadErrors
        ELSE LET zone == ZoneRoot(call.path[1])
                 target == join_resolve(links, zone, Tail(call.path))
             IN  IF ~is_relative_to(target, zone)
                 THEN ~call.tool_called /\ call.returned = "outside the allowed directory"
                 ELSE IF target \in DOMAIN files
                 THEN call.tool_called /\ call.returned = files[target]
                 ELSE call.tool_called /\ call.returned = "Error: File not found"

(* a path tagged 'output' that a link leads into the input zone, where a *)
(* file is, was refused                                                  *)
C33_Witness ==
    /\ call.op = "read_file"
    /\ call.path = << "output", "toin", "a" >>
    /\ join_resolve(links, output_dir, Tail(call.path)) \in DOMAIN files
    /\ call.returned = "outside the allowed directory"

(* execute_task returned on the failure of chats.create *)
ChatErrorReturned == pc = "done" /\ result = Returned(FALSE, "chat_error")

(***************************************************************************)
(* C38: if creating the conversational session fails at the start of       *)
(* execute_task, execute_task returns failure with an error note, and no   *)
(* message was sent to the agent, no validation was run and no tool call   *)
(* was made.                                                               *)
(***************************************************************************)
C38_NoSessionNoWork ==
    /\ [][ (pc = "idle" /\ pc' # "idle" /\ chat' = chat) => ChatErrorReturned' ]_exec_vars
    /\ [](ChatErrorReturned =>
             /\ notes_log = << << "error", << "chat" >> >> >>
             /\ dispatch_calls = 0 /\ fix_calls = 0 /\ server_errors = 0
             /\ used = { }
             /\ validations = 0
             /\ call = NoCall)

(* the second task could not get a session, after a first task that sent *)
(* messages on its own                                                   *)
C38_Witness ==
    /\ ChatErrorReturned
    /\ chat = 1
    /\ old = { 1 }

(* the most files.get calls a wait can make: one per sleep that starts *)
(* within the ceiling                                                 *)
MaxPolls == timeout_seconds \div poll_sleep + 1

(***************************************************************************)
(* C39: the upload polling loop is bounded: upload_pdf_for_gemini polls    *)
(* only while the file is in PROCESSING and the time ceiling has not been  *)
(* exceeded; it returns a file object only when the last observed state is *)
(* ACTIVE; in every other outcome after the upload (timeout, failed state, *)
(* exception) it attempts to delete the uploaded file and returns None,    *)
(* and it never raises.                                                    *)
(***************************************************************************)
C39_UploadPollingBounded ==
    /\ [][ upload'.polls > upload.polls =>
             (upload.state = "PROCESSING" /\ upload.elapsed <= timeout_seconds) ]_upload_vars
    /\ [](/\ upload.polls <= MaxPolls
          /\ upload.elapsed <= timeout_seconds + poll_sleep + Max(Latencies)
          /\ upload.returned \in { "running", "file", "None" }
          /\ upload.returned = "running" <=> upload.pc # "returned"
          /\ upload.returned = "file" => upload.state = "ACTIVE"
          /\ (upload.returned = "None" /\ upload.uploaded) =>
                (upload.deletes = 1 /\ upload.state # "ACTIVE")
          /\ ~upload.uploaded => upload.deletes = 0)

(* the wait ran into the ceiling after the most polls there can be, and *)
(* the file was deleted                                                 *)
C39_Witness ==
    /\ upload.pc = "returned"
    /\ upload.returned = "None"
    /\ upload.polls = MaxPolls
    /\ upload.state = "PROCESSING"
    /\ upload.elapsed > timeout_seconds
    /\ upload.deletes = 1

(* execute_task returned failure from the fix loop *)
FailedInFixLoop ==
    /\ result # None
    /\ Get(result).outcome \in { "gave_up", "fix_exception" }

(***************************************************************************)
(* C40: when execute_task fails out of the fix loop, the number of fix     *)
(* attempts reported in the final note equals the number of fix            *)
(* invocations made for the task, the one whose response gave up or raised *)
(* included.                                                               *)
(***************************************************************************)
C40_ReportedAttemptsAreInvocations ==
    FailedInFixLoop => notes_log[Len(notes_log)] = << "remain", fix_calls >>

(* ================================================================== *)
(* Specifications                                                      *)
(* ================================================================== *)
PlanIdle ==
    /\ file = None
    /\ tasks = << >>
    /\ task_map = BuildMap(<< >>)
    /\ running = TRUE
    /\ last = Call("init", << >>, "", None, None, None, None)
    /\ access = "ok"

(* the plan store in one run of the program *)
OrchIdle ==
    /\ orch_pc = "stopped"
    /\ current = None
    /\ dispatched = << >>
    /\ outcomes = << >>
    /\ writes = 0

GateIdle == gate = << >>

Init == PlanInit /\ ExecInit /\ SandboxIdle /\ OrchIdle /\ GateIdle /\ UploadIdle
Next == GetNextTask \/ UpdateTaskStatus \/ ReloadPlan
Spec == Init /\ [][Next]_vars

(* the plan store with runs that are stopped inside update_task_status *)
CrashNext == GetNextTask \/ InterruptUpdate \/ Restart
SpecCrash == Init /\ [][CrashNext]_vars

(* the plan store with updates whose file write fails *)
WriteFailNext == GetNextTask \/ UpdateTaskStatusWriteFails \/ ReloadPlan
SpecWriteFail == Init /\ [][WriteFailNext]_vars

(* the plan store from the construction of the PlanManager on, over files *)
(* that are missing, unreadable or without tasks                          *)
InitLoad == LoadInit /\ ExecInit /\ SandboxIdle /\ OrchIdle /\ GateIdle /\ UploadIdle
LoadNext == LoadPlan \/ GetNextTask \/ UpdateTaskStatus \/ ReloadPlan
SpecLoad == InitLoad /\ [][LoadNext]_vars

(* the plan store driven as its caller drives it: a task is completed only *)
(* after get_next_task returned it                                         *)
InitReturned == ReturnedInit /\ ExecInit /\ SandboxIdle /\ OrchIdle /\ GateIdle /\ UploadIdle
ReturnedNext == LoadPlan \/ GetNextTask \/ UpdateReturnedTask
SpecReturned == InitReturned /\ [][ReturnedNext]_vars

(* the task executor *)
InitExec == PlanIdle /\ ExecInit /\ SandboxIdle /\ OrchIdle /\ GateIdle /\ UploadIdle
SpecExec == InitExec /\ [][ExecNext]_vars

(* the validation gate over the runs of its two commands *)
InitGate == PlanIdle /\ ExecInit /\ SandboxIdle /\ OrchIdle /\ GateInit /\ UploadIdle
SpecGate == InitGate /\ [][RunLintAndTypecheck]_vars

(* the orchestrator with an executor that always succeeds *)
OrchNextOK == OrchSelect \/ OrchTaskSucceeded
InitOrch == OrchInit /\ ExecInit /\ SandboxIdle /\ GateIdle /\ UploadIdle
SpecOrchOK == InitOrch /\ [][OrchNextOK]_vars /\ WF_vars(OrchNextOK)

(* the orchestrator with an executor that can fail *)
OrchNext == OrchSelect \/ OrchTaskSucceeded \/ OrchTaskFailed
SpecOrch == InitOrch /\ [][OrchNext]_vars /\ WF_vars(OrchNext)

(* the sandboxed file tools *)
InitSandbox == PlanIdle /\ ExecInit /\ SandboxInit /\ OrchIdle /\ GateIdle /\ UploadIdle
SpecSandbox == InitSandbox /\ [][SandboxNext]_vars

(* _resolve_sandbox_path over path strings and zones *)
InitResolve == PlanIdle /\ ExecInit /\ ResolveInit /\ OrchIdle /\ GateIdle /\ UploadIdle
SpecResolve == InitResolve /\ [][ResolveSandboxPath]_vars
(* one call of upload_pdf_for_gemini *)
InitUpload == PlanIdle /\ ExecInit /\ SandboxIdle /\ OrchIdle /\ GateIdle /\ UploadInit
SpecUpload == InitUpload /\ [][UploadNext]_vars

====
